---- MODULE Spec2Model ----
(***************************************************************************)
(* Sonix native layer: the chunked decode paths of sonix_native.c          *)
(* (SonixChunkedDecoder: MP3, FLAC) and of mp4_decoder.c (SonixMp4Context, *)
(* built with HAVE_FAAD2), their seek and cleanup operations, and the      *)
(* whole-input MP3 decode.                                                 *)
(*                                                                         *)
(* Byte streams are sequences over a small alphabet.  The codec libraries  *)
(* (FAAD2's NeAACDecDecode, minimp3's mp3dec_decode_frame) are outside the *)
(* repository; each is modelled as a function of the byte at the cursor    *)
(* and of the number of bytes available, rich enough to take the callers   *)
(* through every branch on (error, bytes consumed, samples).               *)
(***************************************************************************)
EXTENDS Integers, Sequences, FiniteSets, TLC

(***************************************************************************)
(* Bounds of the model.                                                    *)
(***************************************************************************)
\* Longest source (file) in bytes.
MaxSourceLen == 3
\* Longest MP3 source in bytes: room for two whole frames.
MaxMp3SourceLen == 4
\* Length in bytes of the short unit (frame) of the modelled codecs.
ShortUnit == 2
\* Per-channel samples one decoded unit yields.
SamplesPerFrame == 1
\* Largest channel count of a stream.
MaxChannels == 2
\* mp4_decoder.c:467 sets frame_buffer_size = 8192; the model keeps every
\* comparison against it and scales the capacity down.
frame_buffer_size == 2

\* The long unit does not fit the frame buffer: what is left of it while it
\* is incomplete can be larger than the carry-over capacity.
LongUnit == frame_buffer_size + 2

(***************************************************************************)
(* Program constants.                                                      *)
(***************************************************************************)
SONIX_OK == 0
SONIX_ERROR_INVALID_FORMAT == -1
SONIX_ERROR_DECODE_FAILED == -2
SONIX_ERROR_OUT_OF_MEMORY == -3
SONIX_ERROR_INVALID_DATA == -4
SONIX_ERROR_FFMPEG_DECODE_FAILED == -23
SONIX_FORMAT_MP3 == 1
SONIX_FORMAT_FLAC == 2
SONIX_FORMAT_UNKNOWN == 0
SONIX_FORMAT_WAV == 3
SONIX_FORMAT_OGG == 4
\* sonix_native_stub.c:46 (sonix_native.h gives 5 to SONIX_FORMAT_OPUS).
SONIX_FORMAT_MP4 == 5

(***************************************************************************)
(* Bytes.  "h": header of a short unit; "H": header of a long unit;        *)
(* "c": a byte that starts no unit (unit body / garbage); "b": a malformed *)
(* unit the decoder consumes with an error; "z": a byte on which the       *)
(* decoder reports neither an error nor progress.                          *)
(***************************************************************************)
Bytes == {"h", "H", "c", "b", "z"}

\* The bytes the sources of a format are drawn from.  mp3dec_decode_frame
\* answers "z" and "H" as it answers "c" and "h"; process_flac_chunk hands
\* the chunk to dr_flac whole and reads none of its bytes itself.
SourceBytes(fmt) ==
    CASE fmt = SONIX_FORMAT_MP4 -> Bytes
      [] fmt = SONIX_FORMAT_MP3 -> {"h", "c", "b"}
      [] OTHER -> {"c"}

\* The longest source of a format.
SourceLen(fmt) == IF fmt = SONIX_FORMAT_MP3 THEN MaxMp3SourceLen ELSE MaxSourceLen

UnitLen(byte) == IF byte = "H" THEN LongUnit ELSE ShortUnit

\* Decoder error classes (frame_info.error of FAAD2): 0 is success.
ERR_NONE == 0
ERR_NEED_MORE == 1
ERR_INVALID == 2

\* At(buf, off): buf[off] with C's 0-based offsets.
At(buf, off) == buf[off + 1]

\* The bytes of buf from 0-based offset off, n of them.
Slice(buf, off, n) == SubSeq(buf, off + 1, off + n)

\* NeAACDecDecode(decoder, &frame_info, buffer + off, avail): the outcome
\* the loop of mp4_process_chunk_data reads from frame_info.
NeAACDecDecode(buf, off, nch) ==
    LET avail == Len(buf) - off
        first == At(buf, off)
    IN  CASE first \in {"h", "H"} ->
               IF avail >= UnitLen(first)
               THEN [error |-> ERR_NONE, bytesconsumed |-> UnitLen(first),
                     samples |-> SamplesPerFrame * nch]
               ELSE [error |-> ERR_NEED_MORE, bytesconsumed |-> 0, samples |-> 0]
          [] first = "b" -> [error |-> ERR_INVALID, bytesconsumed |-> 1, samples |-> 0]
          [] first = "z" -> [error |-> ERR_NONE, bytesconsumed |-> 0, samples |-> 0]
          [] OTHER -> [error |-> ERR_INVALID, bytesconsumed |-> 0, samples |-> 0]

\* mp3dec_decode_frame(dec, data + off, avail, pcm, &info): the returned
\* per-channel sample count and info.frame_bytes, info.channels.
mp3dec_decode_frame(buf, off, nch) ==
    LET avail == Len(buf) - off
        first == At(buf, off)
    IN  CASE first \in {"h", "H"} ->
               IF avail >= UnitLen(first)
               THEN [samples |-> SamplesPerFrame, frame_bytes |-> UnitLen(first),
                     channels |-> nch]
               ELSE [samples |-> 0, frame_bytes |-> 0, channels |-> 0]
          [] first = "b" -> [samples |-> 0, frame_bytes |-> 1, channels |-> 0]
          [] OTHER -> [samples |-> 0, frame_bytes |-> 0, channels |-> 0]

(***************************************************************************)
(* State.                                                                  *)
(***************************************************************************)
VARIABLES
    format,        \* format tag the handle was created for
    source,        \* the bytes of the source file
    src_channels,  \* channel count the frames of the source declare
    decoder,       \* struct SonixChunkedDecoder (sonix_native.c:28-47)
    mp4_ctx,       \* SonixMp4Context, the fields mp4_decoder.c uses
    memory,        \* the handle's own allocation: "live" or "freed"
    releases,      \* how many times each resource of the handle was released
    faulted,       \* the process faulted (access through a dangling handle)
    fed,           \* source offset of the next FileChunk the caller hands in
    emitted,       \* AudioChunks emitted since init or the last seek, in order
    last,          \* the last operation on the handle and what it returned
    seeks,         \* successful seeks on the handle so far
    loop,          \* the unit-decode loop in progress (SpecLoop only)
    box,           \* a call of the box parser: its input and result (SpecBox only)
    whole_file,    \* a whole-file decode in progress and its buffer (SpecWhole only)
    ffmpeg         \* the FFmpeg backend of sonix_ffmpeg.c and its chunked decoders (SpecFfmpeg)

vars == <<format, source, src_channels, decoder, mp4_ctx, memory, releases,
          faulted, fed, emitted, last, seeks, loop, box, whole_file, ffmpeg>>

Formats == {SONIX_FORMAT_MP3, SONIX_FORMAT_FLAC, SONIX_FORMAT_MP4}

Resources == {"handle", "file", "path", "faad", "frame_buffer"}

\* The resources a live handle of the format owns: sonix_native.c:579-614
\* (decoder, file_path, file_handle) and mp4_decoder.c:311-468 (context,
\* file, faad_decoder, frame_buffer; decode_buffer stays NULL).
Owned(fmt) ==
    IF fmt = SONIX_FORMAT_MP4 THEN {"handle", "file", "faad", "frame_buffer"}
    ELSE {"handle", "file", "path"}

\* Sample rate the codec reports for every stream of the model (Hz).
SampleRate == 1000

\* Sequences over S of length lo..hi.
SeqsOf(S, lo, hi) == UNION {[1..n -> S] : n \in lo..hi}

(***************************************************************************)
(* The unit-decode loop.  A loop state holds the locals of the loop and    *)
(* the context fields the loop writes; `iters` counts iterations and       *)
(* `trace` records, per iteration, the cursor, the decoder's outcome and   *)
(* what the loop did with it.                                              *)
(***************************************************************************)
LoopStart(ctx_sample, fb, fb_used) ==
    [processed_bytes |-> 0, chunks |-> <<>>, current_sample |-> ctx_sample,
     frame_buffer |-> fb, frame_buffer_used |-> fb_used,
     stopped |-> FALSE, iters |-> 0, trace |-> <<>>]

TraceEntry(st, error, consumed, samples, next, stopped) ==
    [at |-> st.processed_bytes, error |-> error, bytesconsumed |-> consumed,
     samples |-> samples, next |-> next, stopped |-> stopped]

\* memcpy(frame_buffer, combined_data + off, n): the first n bytes are
\* overwritten, the rest of the array keeps what it held.
SaveToFrameBuffer(fb, combined_data, off, n) ==
    [i \in 1..Len(fb) |-> IF i <= n THEN At(combined_data, off + i - 1) ELSE fb[i]]

\* Variant of Mp4KeepRemainder: the remainder is kept whatever its length.
Mp4KeepRemainder_Unchecked(st, combined_data) ==
    [st EXCEPT !.frame_buffer =
                   SaveToFrameBuffer(@, combined_data, st.processed_bytes,
                                     Len(combined_data) - st.processed_bytes),
               !.frame_buffer_used = Len(combined_data) - st.processed_bytes,
               !.stopped = TRUE]

\* mp4_decoder.c:533-542: the decoder reported an error and consumed nothing.
\* The remainder is kept when it fits the frame buffer, dropped otherwise;
\* the loop is left either way.
Mp4KeepRemainder(st, combined_data) ==
    LET remaining == Len(combined_data) - st.processed_bytes
    IN  IF remaining > 0 /\ remaining < frame_buffer_size
        THEN [st EXCEPT !.frame_buffer =
                            SaveToFrameBuffer(@, combined_data, st.processed_bytes, remaining),
                        !.frame_buffer_used = remaining,
                        !.stopped = TRUE]
        ELSE [st EXCEPT !.frame_buffer_used = 0, !.stopped = TRUE]

\* Variant of Mp4SkipAfterError: the skip goes one byte too far.
Mp4SkipAfterError_OneTooFar(processed_bytes, bytesconsumed) ==
    processed_bytes + bytesconsumed + 1

\* mp4_decoder.c:545: an error with bytes consumed skips them.
Mp4SkipAfterError(processed_bytes, bytesconsumed) ==
    processed_bytes + (IF bytesconsumed > 0 THEN bytesconsumed ELSE 1)

\* Variant of Mp4Advance: no step of one byte when nothing was consumed.
Mp4Advance_NoStep(processed_bytes, bytesconsumed) ==
    processed_bytes + bytesconsumed

\* mp4_decoder.c:587-592: advance after a call without error.
Mp4Advance(processed_bytes, bytesconsumed) ==
    IF bytesconsumed > 0 THEN processed_bytes + bytesconsumed
    ELSE processed_bytes + 1

\* mp4_decoder.c:577-584: one AudioChunk per decoded frame.
Mp4Emit(st, samples) ==
    [st EXCEPT !.chunks = Append(@, [sample_count |-> samples,
                                     start_sample |-> st.current_sample,
                                     is_last |-> 0]),
               !.current_sample = @ + samples]

\* One iteration of the while loop of mp4_process_chunk_data
\* (mp4_decoder.c:524-593), without allocation failures.
Mp4Iteration(st, combined_data, nch) ==
    LET fi == NeAACDecDecode(combined_data, st.processed_bytes, nch)
        log(s) == [s EXCEPT !.iters = @ + 1,
                            !.trace = Append(@, TraceEntry(st, fi.error, fi.bytesconsumed,
                                                 fi.samples, s.processed_bytes, s.stopped))]
    IN  IF fi.error # ERR_NONE
        THEN IF fi.bytesconsumed = 0
             THEN log(Mp4KeepRemainder(st, combined_data))
             ELSE log([st EXCEPT !.processed_bytes =
                                     Mp4SkipAfterError(@, fi.bytesconsumed)])
        ELSE LET st1 == IF fi.samples > 0 THEN Mp4Emit(st, fi.samples) ELSE st
             IN  log([st1 EXCEPT !.processed_bytes = Mp4Advance(@, fi.bytesconsumed)])

\* sonix_native.c:941-950: a call that decoded no samples moves the cursor
\* (`offset` in process_mp3_chunk) by the frame bytes, or by one byte.
Mp3Skip(offset, frame_bytes) ==
    IF frame_bytes = 0 THEN offset + 1 ELSE offset + frame_bytes

\* sonix_native.c:981-1007: one AudioChunk per decoded frame;
\* sample_count is interleaved, the position advances per channel.
Mp3Emit(st, info) ==
    [st EXCEPT !.chunks = Append(@, [sample_count |-> info.samples * info.channels,
                                     start_sample |-> st.current_sample,
                                     is_last |-> 0]),
               !.current_sample = @ + info.samples,
               !.processed_bytes = @ + info.frame_bytes]

\* One iteration of the while loop of process_mp3_chunk
\* (sonix_native.c:927-1008), without allocation failures.
Mp3Iteration(st, data, nch) ==
    LET info == mp3dec_decode_frame(data, st.processed_bytes, nch)
        err == IF info.samples = 0 THEN ERR_INVALID ELSE ERR_NONE
        log(s) == [s EXCEPT !.iters = @ + 1,
                            !.trace = Append(@, TraceEntry(st, err, info.frame_bytes,
                                                 info.samples, s.processed_bytes, s.stopped))]
    IN  IF info.samples = 0
        THEN log([st EXCEPT !.processed_bytes = Mp3Skip(@, info.frame_bytes)])
        ELSE log(Mp3Emit(st, info))

Iteration(fmt, st, buf, nch) ==
    IF fmt = SONIX_FORMAT_MP4 THEN Mp4Iteration(st, buf, nch) ELSE Mp3Iteration(st, buf, nch)

\* The loop condition of both loops: mp4_decoder.c:524 (and the break of
\* line 542), sonix_native.c:927.
LoopRuns(st, buf) == ~st.stopped /\ st.processed_bytes < Len(buf)

RECURSIVE RunLoop(_, _, _, _)
RunLoop(fmt, st, buf, nch) ==
    IF LoopRuns(st, buf) THEN RunLoop(fmt, Iteration(fmt, st, buf, nch), buf, nch)
    ELSE st

(***************************************************************************)
(* process_chunk.                                                          *)
(***************************************************************************)
\* Variant of Mp4Combine: the new chunk first, the buffered bytes after it.
Mp4Combine_ChunkFirst(fb, fb_used, chunk_data) == chunk_data \o Slice(fb, 0, fb_used)

\* mp4_decoder.c:505-516: the buffered bytes first, then the new chunk.
Mp4Combine(fb, fb_used, chunk_data) == Slice(fb, 0, fb_used) \o chunk_data

\* mp4_decoder.c:595-598: the frame buffer is cleared when the loop ran to
\* the end of the combined data.
Mp4AfterLoop(st, total_data_size) ==
    IF st.processed_bytes >= total_data_size THEN 0 ELSE st.frame_buffer_used

\* Variant of Mp3MarkLast: the flag of the FileChunk is not looked at.
Mp3MarkLast_Always(chunks, is_last) ==
    IF Len(chunks) > 0
    THEN [chunks EXCEPT ![Len(chunks)].is_last = 1]
    ELSE chunks

\* sonix_native.c:1010-1014: the last AudioChunk of the last FileChunk.
Mp3MarkLast(chunks, is_last) ==
    IF is_last /\ Len(chunks) > 0
    THEN [chunks EXCEPT ![Len(chunks)].is_last = 1]
    ELSE chunks

\* The FileChunk the caller builds from the source at offset `fed`.
FileChunk(n) ==
    [data |-> Slice(source, fed, n), size |-> n, position |-> fed,
     is_last |-> (fed + n = Len(source))]

NoChunk == [data |-> <<>>, size |-> 0, position |-> 0, is_last |-> FALSE]

NoLoop == [pc |-> "idle", st |-> LoopStart(0, <<>>, 0), buf |-> <<>>,
           chunk |-> NoChunk, carry |-> <<>>]

\* The record of a process_chunk call.  `carry` is the valid part of the
\* frame buffer at entry, `combined` the buffer handed to the unit decoder,
\* `saved` the bytes of `combined` the call left undecoded and kept.
Report(op, ok, code, chunks, combined, carry, file_chunk, st, saved) ==
    [op |-> op, ok |-> ok, error_code |-> code, chunks |-> chunks,
     combined |-> combined, carry |-> carry, chunk |-> file_chunk.data,
     is_last |-> file_chunk.is_last, trace |-> st.trace,
     processed_bytes |-> st.processed_bytes, saved |-> saved,
     after_seek |-> (last.op = "seek" /\ last.ok),
     pre_seek_carry |-> IF last.op = "seek" /\ last.ok THEN last.carry ELSE <<>>]

\* mp4_decoder.c:581 gives every AudioChunk is_last = 0 and leaves the flag
\* to the caller ("Will be set by caller if needed").  That caller is not
\* among the sources; it is modelled from the specification: the final
\* AudioChunk of the call is flagged when the FileChunk was the last one and
\* the combined buffer was drained with no new carry-over.
Mp4CallerMarkLast(chunks, is_last, drained, no_carry) ==
    IF is_last /\ drained /\ no_carry /\ Len(chunks) > 0
    THEN [chunks EXCEPT ![Len(chunks)].is_last = 1]
    ELSE chunks

\* What mp4_process_chunk_data leaves behind once its loop has ended in
\* state st (mp4_decoder.c:595-605).
Mp4Return(st, file_chunk, carry, combined_data) ==
    /\ mp4_ctx' = [mp4_ctx EXCEPT
                      !.frame_buffer = st.frame_buffer,
                      !.frame_buffer_used = Mp4AfterLoop(st, Len(combined_data)),
                      !.current_sample = st.current_sample]
    /\ emitted' = emitted \o Mp4CallerMarkLast(st.chunks, file_chunk.is_last,
                                   st.processed_bytes >= Len(combined_data),
                                   Mp4AfterLoop(st, Len(combined_data)) = 0)
    /\ fed' = fed + file_chunk.size
    /\ last' = Report("process", TRUE, SONIX_OK,
                      Mp4CallerMarkLast(st.chunks, file_chunk.is_last,
                                        st.processed_bytes >= Len(combined_data),
                                        Mp4AfterLoop(st, Len(combined_data)) = 0),
                      combined_data, carry, file_chunk, st,
                      Slice(combined_data, st.processed_bytes,
                            Mp4AfterLoop(st, Len(combined_data))))
    /\ UNCHANGED <<format, source, src_channels, decoder, memory, releases, faulted,
                   seeks>>

\* mp4_process_chunk_data (mp4_decoder.c:487-610), HAVE_FAAD2 build.
Mp4ProcessChunk(n) ==
    /\ format = SONIX_FORMAT_MP4
    /\ memory = "live"
    /\ loop.pc = "idle"
    /\ LET file_chunk == FileChunk(n)
           carry == Slice(mp4_ctx.frame_buffer, 0, mp4_ctx.frame_buffer_used)
           combined_data == Mp4Combine(mp4_ctx.frame_buffer, mp4_ctx.frame_buffer_used,
                                       file_chunk.data)
           st0 == LoopStart(mp4_ctx.current_sample, mp4_ctx.frame_buffer,
                            mp4_ctx.frame_buffer_used)
       IN  IF file_chunk.size = 0
           THEN /\ last' = Report("process", FALSE, SONIX_ERROR_INVALID_DATA, <<>>, <<>>,
                                  carry, file_chunk, st0, last.saved)
                /\ UNCHANGED <<format, source, src_channels, decoder, mp4_ctx, memory,
                               releases, faulted, fed, emitted, seeks>>
           ELSE IF mp4_ctx.initialized = 0
           THEN /\ last' = Report("process", FALSE, SONIX_ERROR_DECODE_FAILED, <<>>, <<>>,
                                  carry, file_chunk, st0, last.saved)
                /\ UNCHANGED <<format, source, src_channels, decoder, mp4_ctx, memory,
                               releases, faulted, fed, emitted, seeks>>
           ELSE Mp4Return(RunLoop(format, st0, combined_data, mp4_ctx.channels),
                          file_chunk, carry, combined_data)
    /\ UNCHANGED <<loop, box, whole_file, ffmpeg>>

\* The loop of mp4_process_chunk_data up to the allocation that fails: the
\* realloc of the chunk array or the malloc of the sample buffer for the
\* frame_no-th frame the call decodes (mp4_decoder.c:551-572).  `failed`
\* tells whether the loop came to that allocation at all.
RECURSIVE Mp4LoopToAllocation(_, _, _, _)
Mp4LoopToAllocation(st, combined_data, nch, frame_no) ==
    IF ~LoopRuns(st, combined_data) THEN [failed |-> FALSE, st |-> st]
    ELSE LET fi == NeAACDecDecode(combined_data, st.processed_bytes, nch)
         IN  IF fi.error = ERR_NONE /\ fi.samples > 0 /\ Len(st.chunks) + 1 = frame_no
             THEN [failed |-> TRUE, st |-> st]
             ELSE Mp4LoopToAllocation(Mp4Iteration(st, combined_data, nch),
                                      combined_data, nch, frame_no)

\* mp4_process_chunk_data when an allocation fails: frame_no = 0 is the
\* malloc of combined_data (mp4_decoder.c:506-510), frame_no > 0 an
\* allocation for that frame (mp4_decoder.c:555-572).  The call frees what
\* it allocated and returns SONIX_ERROR_OUT_OF_MEMORY; the context keeps
\* what the loop wrote to it before the failure.
Mp4ProcessChunkOom(n, frame_no) ==
    /\ format = SONIX_FORMAT_MP4
    /\ memory = "live"
    /\ loop.pc = "idle"
    /\ n > 0
    /\ mp4_ctx.initialized = 1
    /\ LET file_chunk == FileChunk(n)
           carry == Slice(mp4_ctx.frame_buffer, 0, mp4_ctx.frame_buffer_used)
           combined_data == Mp4Combine(mp4_ctx.frame_buffer, mp4_ctx.frame_buffer_used,
                                       file_chunk.data)
           st0 == LoopStart(mp4_ctx.current_sample, mp4_ctx.frame_buffer,
                            mp4_ctx.frame_buffer_used)
           run == IF frame_no = 0 THEN [failed |-> TRUE, st |-> st0]
                  ELSE Mp4LoopToAllocation(st0, combined_data, mp4_ctx.channels, frame_no)
       IN  /\ run.failed
           /\ mp4_ctx' = [mp4_ctx EXCEPT !.current_sample = run.st.current_sample]
           /\ last' = Report("process", FALSE, SONIX_ERROR_OUT_OF_MEMORY, <<>>,
                             IF frame_no = 0 THEN <<>> ELSE combined_data,
                             carry, file_chunk, run.st, last.saved)
    /\ UNCHANGED <<format, source, src_channels, decoder, memory, releases, faulted,
                   fed, emitted, seeks, loop, box, whole_file, ffmpeg>>

\* What process_mp3_chunk leaves behind once its loop has ended in state st
\* (sonix_native.c:952-958, 1010-1022).
Mp3Return(st, file_chunk) ==
    LET chunks == Mp3MarkLast(st.chunks, file_chunk.is_last)
    IN  /\ decoder' = IF Len(st.chunks) > 0 /\ decoder.properties_initialized = 0
                      THEN [decoder EXCEPT !.sample_rate = SampleRate,
                                           !.channels = src_channels,
                                           !.properties_initialized = 1]
                      ELSE decoder
        /\ emitted' = emitted \o chunks
        /\ fed' = fed + file_chunk.size
        /\ last' = Report("process", TRUE, SONIX_OK, chunks, file_chunk.data, <<>>,
                          file_chunk, st, <<>>)
        /\ UNCHANGED <<format, source, src_channels, mp4_ctx, memory, releases, faulted,
                       seeks>>

\* process_mp3_chunk (sonix_native.c:896-1023) through
\* sonix_process_file_chunk (sonix_native.c:1025-1048).
Mp3ProcessChunk(n) ==
    /\ format = SONIX_FORMAT_MP3
    /\ memory = "live"
    /\ loop.pc = "idle"
    /\ LET file_chunk == FileChunk(n)
       IN  Mp3Return(RunLoop(format, LoopStart(0, <<>>, 0), file_chunk.data, src_channels),
                     file_chunk)
    /\ UNCHANGED <<loop, box, whole_file, ffmpeg>>

\* Most PCM frames dr_flac returns for one chunk.
MaxFlacFrames == 2

\* process_flac_chunk (sonix_native.c:648-715): the chunk is decoded on its
\* own by drflac_open_memory_and_read_pcm_frames_f32, which returns
\* totalPCMFrameCount frames or nothing.  (A chunk of n bytes holds at
\* most n frames: Next offers no more.)
FlacProcessChunk(n, totalPCMFrameCount) ==
    /\ format = SONIX_FORMAT_FLAC
    /\ memory = "live"
    /\ loop.pc = "idle"
    /\ LET file_chunk == FileChunk(n)
           st0 == LoopStart(0, <<>>, 0)
           chunks == << [sample_count |-> totalPCMFrameCount * src_channels,
                         start_sample |-> file_chunk.position,
                         is_last |-> IF file_chunk.is_last THEN 1 ELSE 0] >>
       IN  IF totalPCMFrameCount = 0
           THEN /\ last' = Report("process", FALSE, SONIX_OK, <<>>, file_chunk.data, <<>>,
                                  file_chunk, st0, <<>>)
                /\ UNCHANGED <<decoder, fed, emitted, seeks>>
           ELSE /\ decoder' = IF decoder.properties_initialized = 0
                              THEN [decoder EXCEPT !.sample_rate = SampleRate,
                                                   !.channels = src_channels,
                                                   !.properties_initialized = 1]
                              ELSE decoder
                /\ emitted' = emitted \o chunks
                /\ fed' = fed + file_chunk.size
                /\ last' = Report("process", TRUE, SONIX_OK, chunks, file_chunk.data, <<>>,
                                  file_chunk, [st0 EXCEPT !.processed_bytes = file_chunk.size],
                                  <<>>)
    /\ UNCHANGED <<format, source, src_channels, mp4_ctx, memory, releases, faulted,
                   seeks, loop, box, whole_file, ffmpeg>>

(***************************************************************************)
(* seek.                                                                   *)
(***************************************************************************)
\* Requested times (ms): the start, inside the stream, beyond its end.
SeekTimes == {0, 500, 2000}

\* Successful seeks on one handle the model follows.
MaxSeeks == 1

\* mp4_decoder.c:648: the distance kept from the end of the file.
SeekBackoff == 1024

\* mp4_decoder.c:643-649: (long)(file_size * (time_ms / 1000.0) * 0.8),
\* moved back from the end of the file when it reaches it.
Mp4EstimatePosition(file_size, time_ms) ==
    LET estimated_position == (file_size * time_ms * 8) \div 10000
    IN  IF estimated_position >= file_size THEN file_size - SeekBackoff
        ELSE estimated_position

\* mp4_decoder.c:639, 658: the sample position after the seek.
Mp4TargetSample(time_ms, sample_rate, nch) ==
    ((time_ms * sample_rate) \div 1000) * nch

\* Variant of Mp4SeekFrameBufferUsed: the seek leaves the frame buffer as
\* it was.
Mp4SeekFrameBufferUsed_Kept(fb_used) == fb_used

\* mp4_decoder.c:661: the frame buffer is cleared after seeking.
Mp4SeekFrameBufferUsed(fb_used) == 0

SeekReport(ok, code, carry) ==
    [op |-> "seek", ok |-> ok, error_code |-> code, chunks |-> <<>>,
     combined |-> <<>>, carry |-> carry, chunk |-> <<>>, is_last |-> FALSE,
     trace |-> <<>>, processed_bytes |-> 0,
     saved |-> IF ok THEN <<>> ELSE last.saved, after_seek |-> FALSE,
     pre_seek_carry |-> <<>>]

\* mp4_seek_to_time (mp4_decoder.c:612-668).  fseek(file, 0, SEEK_END) runs
\* first; fseek to a negative offset fails.
mp4_seek_to_time(time_ms) ==
    /\ seeks < MaxSeeks
    /\ format = SONIX_FORMAT_MP4
    /\ memory = "live"
    /\ loop.pc = "idle"
    /\ LET carry == Slice(mp4_ctx.frame_buffer, 0, mp4_ctx.frame_buffer_used)
           file_size == Len(source)
           estimated_position == Mp4EstimatePosition(file_size, time_ms)
       IN  IF mp4_ctx.initialized = 0
           THEN /\ last' = SeekReport(FALSE, SONIX_ERROR_INVALID_DATA, carry)
                /\ UNCHANGED <<mp4_ctx, fed, emitted, seeks>>
           ELSE IF ~mp4_ctx.mp4_file
           THEN /\ last' = SeekReport(FALSE, SONIX_ERROR_DECODE_FAILED, carry)
                /\ UNCHANGED <<mp4_ctx, fed, emitted, seeks>>
           ELSE IF mp4_ctx.sample_rate > 0
           THEN IF estimated_position < 0
                THEN /\ mp4_ctx' = [mp4_ctx EXCEPT !.file_offset = file_size]
                     /\ last' = SeekReport(FALSE, SONIX_ERROR_DECODE_FAILED, carry)
                     /\ UNCHANGED <<fed, emitted, seeks>>
                ELSE /\ mp4_ctx' = [mp4_ctx EXCEPT
                            !.file_offset = estimated_position,
                            !.current_sample = Mp4TargetSample(time_ms, mp4_ctx.sample_rate,
                                                               mp4_ctx.channels),
                            !.frame_buffer_used = Mp4SeekFrameBufferUsed(@)]
                     /\ fed' = estimated_position
                     /\ emitted' = <<>>
                     /\ seeks' = seeks + 1
                     /\ last' = SeekReport(TRUE, SONIX_OK, carry)
           ELSE /\ mp4_ctx' = [mp4_ctx EXCEPT !.file_offset = file_size]
                /\ last' = SeekReport(FALSE, SONIX_ERROR_DECODE_FAILED, carry)
                /\ UNCHANGED <<fed, emitted, seeks>>
    /\ UNCHANGED <<format, source, src_channels, decoder, memory, releases, faulted, loop, box, whole_file, ffmpeg>>

\* sonix_native.c:1067-1068, 1116-1117: (uint64_t)(time_ms / 1000.0 * file_size).
SonixEstimatePosition(file_size, time_ms) == (time_ms * file_size) \div 1000

\* sonix_seek_to_time (sonix_native.c:1050-1142), MP3 and FLAC cases.
sonix_seek_to_time(time_ms) ==
    /\ seeks < MaxSeeks
    /\ format \in {SONIX_FORMAT_MP3, SONIX_FORMAT_FLAC}
    /\ memory = "live"
    /\ loop.pc = "idle"
    /\ LET estimated_position == SonixEstimatePosition(decoder.file_size, time_ms)
       IN  IF ~decoder.file_handle
           THEN /\ last' = SeekReport(FALSE, SONIX_ERROR_INVALID_DATA, <<>>)
                /\ UNCHANGED <<decoder, fed, emitted, seeks>>
           ELSE IF decoder.properties_initialized = 1 /\ decoder.sample_rate > 0
           THEN /\ decoder' = [decoder EXCEPT !.file_offset = estimated_position,
                                              !.current_position = estimated_position]
                /\ fed' = estimated_position
                /\ emitted' = <<>>
                /\ seeks' = seeks + 1
                /\ last' = SeekReport(TRUE, SONIX_OK, <<>>)
           ELSE /\ last' = SeekReport(FALSE, SONIX_ERROR_INVALID_DATA, <<>>)
                /\ UNCHANGED <<decoder, fed, emitted, seeks>>
    /\ UNCHANGED <<format, source, src_channels, mp4_ctx, memory, releases, faulted, loop, box, whole_file, ffmpeg>>

\* sonix_init_chunked_decoder (sonix_native.c:570-646): the decoder after
\* memset, fopen and the file-size probe.
InitDecoder(file_size) ==
    [file_handle |-> TRUE, file_offset |-> 0, file_size |-> file_size,
     current_position |-> 0, sample_rate |-> 0, channels |-> 0,
     properties_initialized |-> 0]

\* mp4_init_chunked_context (mp4_decoder.c:452-484): the context after a
\* successful init; the malloc'ed frame buffer holds no defined byte ("u").
InitMp4Context(nch) ==
    [initialized |-> 1, mp4_file |-> TRUE, file_offset |-> 0, faad_decoder |-> TRUE,
     sample_rate |-> SampleRate, channels |-> nch, current_sample |-> 0,
     frame_buffer |-> [i \in 1..frame_buffer_size |-> "u"],
     frame_buffer_used |-> 0]

(***************************************************************************)
(* cleanup.                                                                *)
(***************************************************************************)
\* Calls of cleanup on one handle the model follows.
MaxCleanupCalls == 2

Release(rs) == [r \in Resources |-> IF r \in rs THEN releases[r] + 1 ELSE releases[r]]

CleanupReport ==
    [op |-> "cleanup", ok |-> TRUE, error_code |-> SONIX_OK, chunks |-> <<>>,
     combined |-> <<>>, carry |-> <<>>, chunk |-> <<>>, is_last |-> FALSE,
     trace |-> <<>>, processed_bytes |-> 0, saved |-> <<>>, after_seek |-> FALSE,
     pre_seek_carry |-> <<>>]

\* Cleanup of a handle whose memory is live: every resource it owns is
\* released once and the handle is freed (sonix_native.c:1213-1221,
\* mp4_decoder.c:678-699).  What the freed structure held is no longer
\* defined, and the caller's run over the source is over: the model puts
\* both back to their initial values.
CleanupLive ==
    /\ releases' = Release(Owned(format))
    /\ memory' = "freed"
    /\ fed' = 0
    /\ emitted' = <<>>
    /\ seeks' = 0
    /\ UNCHANGED faulted

\* Cleanup through a dangling handle (the caller's pointer is not reset by
\* the first call): the fields are read from freed memory, so the call
\* faults, or it releases again whatever the fields it reads still name,
\* and frees the handle again (sonix_native.c:1221, mp4_decoder.c:699).
CleanupDangling ==
    \/ /\ faulted' = TRUE
       /\ UNCHANGED <<releases, memory, fed, emitted, seeks>>
    \/ \E again \in SUBSET (Owned(format) \ {"handle"}) :
          /\ releases' = Release(again \cup {"handle"})
          /\ UNCHANGED <<faulted, memory, fed, emitted, seeks>>

\* sonix_cleanup_chunked_decoder (sonix_native.c:1187-1223).
sonix_cleanup_chunked_decoder ==
    /\ format \in {SONIX_FORMAT_MP3, SONIX_FORMAT_FLAC}
    /\ ~faulted
    /\ loop.pc = "idle"
    /\ releases["handle"] < MaxCleanupCalls
    /\ IF memory = "live"
       THEN /\ CleanupLive
            /\ decoder' = InitDecoder(Len(source))
       ELSE /\ CleanupDangling
            /\ UNCHANGED decoder
    /\ last' = CleanupReport
    /\ UNCHANGED <<format, source, src_channels, mp4_ctx, loop, box, whole_file, ffmpeg>>

\* mp4_cleanup_chunked_context (mp4_decoder.c:670-700).
mp4_cleanup_chunked_context ==
    /\ format = SONIX_FORMAT_MP4
    /\ ~faulted
    /\ loop.pc = "idle"
    /\ releases["handle"] < MaxCleanupCalls
    /\ IF memory = "live"
       THEN /\ CleanupLive
            /\ mp4_ctx' = [InitMp4Context(src_channels) EXCEPT
                               !.faad_decoder = FALSE, !.mp4_file = FALSE]
       ELSE /\ CleanupDangling
            /\ UNCHANGED mp4_ctx
    /\ last' = CleanupReport
    /\ UNCHANGED <<format, source, src_channels, decoder, loop, box, whole_file, ffmpeg>>

(***************************************************************************)
(* Whole-input MP3 decode.                                                 *)
(***************************************************************************)
\* skip_id3v2_tag (sonix_native.c:363-379): inputs shorter than 10 bytes
\* and inputs that do not start with "ID3" have no tag to skip; no source
\* of the model starts with that signature.
skip_id3v2_tag(data) == 0

\* The sync check of decode_mp3 (sonix_native.c:413-422): the 11 sync bits
\* of a frame header.  Every byte that starts a unit, well-formed or not,
\* carries them.
IsSync(data, offset) == At(data, offset) \in {"h", "H", "b"}

\* The while loop of decode_mp3 (sonix_native.c:406-472), without
\* allocation failures: the interleaved samples collected once the cursor
\* has reached the end of the input.
RECURSIVE DecodeMp3Loop(_, _, _, _)
DecodeMp3Loop(data, offset, total_samples, nch) ==
    IF offset >= Len(data) THEN total_samples
    ELSE IF Len(data) - offset >= 2 /\ ~IsSync(data, offset)
    THEN DecodeMp3Loop(data, offset + 1, total_samples, nch)
    ELSE LET info == mp3dec_decode_frame(data, offset, nch)
         IN  IF info.samples = 0
             THEN IF info.frame_bytes = 0
                  THEN DecodeMp3Loop(data, offset + 1, total_samples, nch)
                  ELSE DecodeMp3Loop(data, offset + info.frame_bytes, total_samples, nch)
             ELSE DecodeMp3Loop(data, offset + info.frame_bytes,
                                total_samples + info.samples * info.channels, nch)

\* decode_mp3 (sonix_native.c:381-516): NULL when no frame decoded,
\* otherwise the SonixAudioData of the whole input.
decode_mp3(data, nch) ==
    LET total_samples == DecodeMp3Loop(data, skip_id3v2_tag(data), 0, nch)
    IN  IF total_samples = 0
        THEN [ok |-> FALSE, sample_count |-> 0, channels |-> 0]
        ELSE [ok |-> TRUE, sample_count |-> total_samples, channels |-> nch]

(***************************************************************************)
(* The handle after a successful init_chunked, and the specification.      *)
(***************************************************************************)
\* No call of the box parser.
NoBox == [call |-> "none"]

\* No whole-file decode is running.
NoWhole == [fn |-> "none"]

\* The FFmpeg backend takes no part.
NoFfmpeg == [backend |-> "none"]

InitReport ==
    [op |-> "init", ok |-> TRUE, error_code |-> SONIX_OK, chunks |-> <<>>,
     combined |-> <<>>, carry |-> <<>>, chunk |-> <<>>, is_last |-> FALSE,
     trace |-> <<>>, processed_bytes |-> 0, saved |-> <<>>, after_seek |-> FALSE,
     pre_seek_carry |-> <<>>]

Init ==
    /\ format \in Formats
    /\ source \in SeqsOf(SourceBytes(format), 1, SourceLen(format))
    /\ src_channels \in 1..MaxChannels
    /\ decoder = InitDecoder(Len(source))
    /\ mp4_ctx = InitMp4Context(src_channels)
    /\ memory = "live"
    /\ releases = [r \in Resources |-> 0]
    /\ faulted = FALSE
    /\ fed = 0
    /\ emitted = <<>>
    /\ last = InitReport
    /\ seeks = 0
    /\ loop = NoLoop
    /\ ffmpeg = NoFfmpeg
    /\ whole_file = NoWhole
    /\ box = NoBox

ChunkSizes == 0..(Len(source) - fed)

Next ==
    \/ \E n \in ChunkSizes : Mp4ProcessChunk(n)
    \/ \E n \in ChunkSizes : Mp3ProcessChunk(n)
    \/ \E n \in ChunkSizes, frames \in 0..MaxFlacFrames :
          frames <= n /\ FlacProcessChunk(n, frames)
    \/ \E time_ms \in SeekTimes : mp4_seek_to_time(time_ms)
    \/ \E time_ms \in SeekTimes : sonix_seek_to_time(time_ms)
    \/ sonix_cleanup_chunked_decoder
    \/ mp4_cleanup_chunked_context

Spec == Init /\ [][Next]_vars

(***************************************************************************)
(* The same process_chunk calls, one loop iteration per step: SpecLoop     *)
(* follows the loop of process_mp3_chunk and of mp4_process_chunk_data     *)
(* through its iterations.  The calls are synchronous (nothing else runs   *)
(* on the handle while a call is in its loop), and a call that has started *)
(* runs on: weak fairness of the iteration and of the return.              *)
(***************************************************************************)
\* Entry of the call up to the loop (mp4_decoder.c:489-522,
\* sonix_native.c:898-925).
LoopEnter(n) ==
    /\ format \in {SONIX_FORMAT_MP4, SONIX_FORMAT_MP3}
    /\ memory = "live"
    /\ loop.pc = "idle"
    /\ n > 0
    /\ LET file_chunk == FileChunk(n)
           carry == Slice(mp4_ctx.frame_buffer, 0, mp4_ctx.frame_buffer_used)
       IN  loop' = IF format = SONIX_FORMAT_MP4
                   THEN [pc |-> "loop",
                         st |-> LoopStart(mp4_ctx.current_sample, mp4_ctx.frame_buffer,
                                          mp4_ctx.frame_buffer_used),
                         buf |-> Mp4Combine(mp4_ctx.frame_buffer, mp4_ctx.frame_buffer_used,
                                            file_chunk.data),
                         chunk |-> file_chunk, carry |-> carry]
                   ELSE [pc |-> "loop", st |-> LoopStart(0, <<>>, 0),
                         buf |-> file_chunk.data, chunk |-> file_chunk, carry |-> <<>>]
    /\ UNCHANGED <<format, source, src_channels, decoder, mp4_ctx, memory, releases,
                   faulted, fed, emitted, last, seeks, box, whole_file, ffmpeg>>

\* One iteration (mp4_decoder.c:524-593, sonix_native.c:927-1008).
LoopIter ==
    /\ loop.pc = "loop"
    /\ LoopRuns(loop.st, loop.buf)
    /\ loop' = [loop EXCEPT !.st = Iteration(format, loop.st, loop.buf, src_channels)]
    /\ UNCHANGED <<format, source, src_channels, decoder, mp4_ctx, memory, releases,
                   faulted, fed, emitted, last, seeks, box, whole_file, ffmpeg>>

\* The loop has ended: the rest of the call (mp4_decoder.c:595-605,
\* sonix_native.c:1010-1022).
LoopExit ==
    /\ loop.pc = "loop"
    /\ ~LoopRuns(loop.st, loop.buf)
    /\ IF format = SONIX_FORMAT_MP4
       THEN Mp4Return(loop.st, loop.chunk, loop.carry, loop.buf)
       ELSE Mp3Return(loop.st, loop.chunk)
    /\ loop' = NoLoop
    /\ UNCHANGED <<box, whole_file, ffmpeg>>

NextLoop ==
    \/ \E n \in ChunkSizes : LoopEnter(n)
    \/ LoopIter
    \/ LoopExit

SpecLoop == Init /\ [][NextLoop]_vars /\ WF_vars(LoopIter) /\ WF_vars(LoopExit)

(***************************************************************************)
(* An MP4 handle whose calls can run out of memory: SpecAlloc adds the     *)
(* failure of each allocation of mp4_process_chunk_data to the operations  *)
(* on an MP4 context.                                                      *)
(***************************************************************************)
InitMp4 == Init /\ format = SONIX_FORMAT_MP4

NextAlloc ==
    \/ \E n \in ChunkSizes : Mp4ProcessChunk(n)
    \/ \E n \in ChunkSizes, frame_no \in 0..Len(source) : Mp4ProcessChunkOom(n, frame_no)
    \/ \E time_ms \in SeekTimes : mp4_seek_to_time(time_ms)

SpecAlloc == InitMp4 /\ [][NextAlloc]_vars

(***************************************************************************)
(* The box parser (mp4_container.c).  A buffer is a sequence of bytes      *)
(* 0..255, a pointer is an offset into it (NULL is -1), and a 64-bit value *)
(* is the pair of its 32-bit halves.  The inputs keep the first byte of    *)
(* every 32-bit field below 128, so that each half fits the model checker's*)
(* integers.                                                               *)
(***************************************************************************)
NULL == -1

SONIX_ERROR_MP4_CONTAINER_INVALID == -10
SONIX_ERROR_MP4_NO_AUDIO_TRACK == -11
SONIX_ERROR_MP4_UNSUPPORTED_CODEC == -12

BOX_TYPE_FTYP == 1718909296
BOX_TYPE_MOOV == 1836019574
BOX_TYPE_TRAK == 1953653099
BOX_TYPE_MDIA == 1835297121
BOX_TYPE_MINF == 1835626086
BOX_TYPE_STBL == 1937007212
BOX_TYPE_STSD == 1937011556
BOX_TYPE_STSZ == 1937011578
BOX_TYPE_STCO == 1937007471
BOX_TYPE_CO64 == 1668232756
BOX_TYPE_MDHD == 1835296868
BOX_TYPE_HDLR == 1751411826
CODEC_TYPE_MP4A == 1836069985
HANDLER_TYPE_SOUN == 1936684398

\* data[i] of the buffer mem, data being an offset into mem.
ByteAt(mem, data, i) == mem[data + i + 1]

read_be32(mem, data) ==
    ByteAt(mem, data, 0) * 16777216 + ByteAt(mem, data, 1) * 65536
        + ByteAt(mem, data, 2) * 256 + ByteAt(mem, data, 3)

read_be64(mem, data) ==
    [hi |-> read_be32(mem, data), lo |-> read_be32(mem, data + 4)]

read_be16(mem, data) == ByteAt(mem, data, 0) * 256 + ByteAt(mem, data, 1)

\* A 32-bit value widened to 64 bits, and the comparisons of a 64-bit value
\* with a size_t that the code makes.
U64(n) == [hi |-> 0, lo |-> n]
Below(size, n) == size.hi = 0 /\ size.lo < n
Above(size, n) == size.hi > 0 \/ size.lo > n

\* A local variable of a function body: With([v \in {value} |-> e]) is e with v
\* holding value.
With(f) == f[CHOOSE v \in DOMAIN f : TRUE]

\* The Mp4BoxHeader before anything is written to it.
NoHeader == [size |-> U64(0), type |-> 0, header_size |-> 0]

\* Variants of mp4_parse_box_header: without the final validation of the
\* size, with a zero size field read as "to the end of the data", and with
\* header_size left at 8 in the 64-bit form.
mp4_parse_box_header_Unvalidated(mem, data, data_size, header) ==
    IF data = NULL \/ ~header \/ data_size < 8
    THEN [rc |-> SONIX_ERROR_INVALID_DATA, header |-> NoHeader]
    ELSE With([short \in {[size |-> U64(read_be32(mem, data)),
                           type |-> read_be32(mem, data + 4),
                           header_size |-> 8]} |->
         IF short.size.lo = 1
         THEN IF data_size < 16
              THEN [rc |-> SONIX_ERROR_INVALID_DATA, header |-> short]
              ELSE With([long \in {[short EXCEPT !.size = read_be64(mem, data + 8),
                                                 !.header_size = 16]} |->
                   IF FALSE
                   THEN [rc |-> SONIX_ERROR_MP4_CONTAINER_INVALID, header |-> long]
                   ELSE [rc |-> SONIX_OK, header |-> long]])
         ELSE IF short.size.lo = 0
         THEN [rc |-> SONIX_ERROR_MP4_CONTAINER_INVALID, header |-> short]
         ELSE IF FALSE
         THEN [rc |-> SONIX_ERROR_MP4_CONTAINER_INVALID, header |-> short]
         ELSE [rc |-> SONIX_OK, header |-> short]])

mp4_parse_box_header_ZeroSizeToEnd(mem, data, data_size, header) ==
    IF data = NULL \/ ~header \/ data_size < 8
    THEN [rc |-> SONIX_ERROR_INVALID_DATA, header |-> NoHeader]
    ELSE With([short \in {[size |-> U64(read_be32(mem, data)),
                           type |-> read_be32(mem, data + 4),
                           header_size |-> 8]} |->
         IF short.size.lo = 1
         THEN IF data_size < 16
              THEN [rc |-> SONIX_ERROR_INVALID_DATA, header |-> short]
              ELSE With([long \in {[short EXCEPT !.size = read_be64(mem, data + 8),
                                                 !.header_size = 16]} |->
                   IF Below(long.size, long.header_size) \/ Above(long.size, data_size)
                   THEN [rc |-> SONIX_ERROR_MP4_CONTAINER_INVALID, header |-> long]
                   ELSE [rc |-> SONIX_OK, header |-> long]])
         ELSE IF short.size.lo = 0
         THEN [rc |-> SONIX_OK, header |-> [short EXCEPT !.size = U64(data_size)]]
         ELSE IF Below(short.size, short.header_size) \/ Above(short.size, data_size)
         THEN [rc |-> SONIX_ERROR_MP4_CONTAINER_INVALID, header |-> short]
         ELSE [rc |-> SONIX_OK, header |-> short]])

mp4_parse_box_header_LongKeepsShortSize(mem, data, data_size, header) ==
    IF data = NULL \/ ~header \/ data_size < 8
    THEN [rc |-> SONIX_ERROR_INVALID_DATA, header |-> NoHeader]
    ELSE With([short \in {[size |-> U64(read_be32(mem, data)),
                           type |-> read_be32(mem, data + 4),
                           header_size |-> 8]} |->
         IF short.size.lo = 1
         THEN IF data_size < 16
              THEN [rc |-> SONIX_ERROR_INVALID_DATA, header |-> short]
              ELSE With([long \in {[short EXCEPT !.size = read_be64(mem, data + 8),
                                                 !.header_size = 8]} |->
                   IF Below(long.size, long.header_size) \/ Above(long.size, data_size)
                   THEN [rc |-> SONIX_ERROR_MP4_CONTAINER_INVALID, header |-> long]
                   ELSE [rc |-> SONIX_OK, header |-> long]])
         ELSE IF short.size.lo = 0
         THEN [rc |-> SONIX_ERROR_MP4_CONTAINER_INVALID, header |-> short]
         ELSE IF Below(short.size, short.header_size) \/ Above(short.size, data_size)
         THEN [rc |-> SONIX_ERROR_MP4_CONTAINER_INVALID, header |-> short]
         ELSE [rc |-> SONIX_OK, header |-> short]])

\* mp4_parse_box_header(data, data_size, header): header tells whether the
\* third argument is non-null.  The result holds the return code and the
\* fields as the call leaves them.
mp4_parse_box_header(mem, data, data_size, header) ==
    IF data = NULL \/ ~header \/ data_size < 8
    THEN [rc |-> SONIX_ERROR_INVALID_DATA, header |-> NoHeader]
    ELSE With([short \in {[size |-> U64(read_be32(mem, data)),
                           type |-> read_be32(mem, data + 4),
                           header_size |-> 8]} |->
         IF short.size.lo = 1
         THEN IF data_size < 16
              THEN [rc |-> SONIX_ERROR_INVALID_DATA, header |-> short]
              ELSE With([long \in {[short EXCEPT !.size = read_be64(mem, data + 8),
                                                 !.header_size = 16]} |->
                   IF Below(long.size, long.header_size) \/ Above(long.size, data_size)
                   THEN [rc |-> SONIX_ERROR_MP4_CONTAINER_INVALID, header |-> long]
                   ELSE [rc |-> SONIX_OK, header |-> long]])
         ELSE IF short.size.lo = 0
         THEN [rc |-> SONIX_ERROR_MP4_CONTAINER_INVALID, header |-> short]
         ELSE IF Below(short.size, short.header_size) \/ Above(short.size, data_size)
         THEN [rc |-> SONIX_ERROR_MP4_CONTAINER_INVALID, header |-> short]
         ELSE [rc |-> SONIX_OK, header |-> short]])

(***************************************************************************)
(* Calls of the box parser.  SpecBox draws an input (a buffer, the         *)
(* arguments of the call) and applies one function of mp4_container.c to   *)
(* it; `box` holds the input and, after the call, what the call returned.  *)
(* A buffer of the inputs holds exactly data_size bytes, so that a read    *)
(* past the data the call was given has no value in the model.             *)
(***************************************************************************)
\* The bytes of a 32-bit value and of a box header: how a writer of the
\* format encodes what read_be32 and mp4_parse_box_header decode.
be32(n) == <<n \div 16777216, (n \div 65536) % 256, (n \div 256) % 256, n % 256>>

EncodeHeader(header) ==
    IF header.header_size = 8
    THEN be32(header.size.lo) \o be32(header.type)
    ELSE be32(1) \o be32(header.type) \o be32(header.size.hi) \o be32(header.size.lo)

Zeros(n) == [i \in 1..n |-> 0]

BoxInput(family, mem, data, data_size, header, box_type, expect) ==
    [call |-> "none", family |-> family, mem |-> mem, data |-> data,
     data_size |-> data_size, header |-> header, box_type |-> box_type,
     expect |-> expect, result |-> <<>>]

\* The size fields and the amounts of available data the header inputs
\* are drawn from.
MaxHeaderData == 24
SizeFields == {0, 1, 7, 8, 9, 15, 16, 17, MaxHeaderData, MaxHeaderData + 1, 16777216}
LongSizeFields == [hi : {0, 1}, lo : {0, 8, 15, 16, 17, MaxHeaderData, MaxHeaderData + 1}]
HeaderDataSizes == {0, 4, 7, 8, 12, 15, 16, 17, MaxHeaderData}
HeaderTypes == {BOX_TYPE_FTYP, BOX_TYPE_MOOV}

\* Any four header fields, cut to the available data; either argument of
\* the call may be null.
RawHeaderInputs ==
    {BoxInput("raw",
              Slice(be32(size32) \o be32(type) \o be32(long.hi) \o be32(long.lo)
                        \o Zeros(MaxHeaderData - 16), 0, data_size),
              data, data_size, header, 0, NoHeader) :
        size32 \in SizeFields, type \in HeaderTypes, long \in LongSizeFields,
        data_size \in HeaderDataSizes, data \in {0, NULL}, header \in BOOLEAN}

\* A valid (size, type, header_size): the size is at least the header
\* size, and the 8-byte form holds a size of 32 bits.
ValidHeaders ==
    {h \in [size : [hi : {0}, lo : 8..MaxHeaderData], type : HeaderTypes,
            header_size : {8, 16}] : h.size.lo >= h.header_size}

\* The encoding of a valid header, followed by the rest of its box.
EncodedHeaderInputs ==
    {BoxInput("encoded", EncodeHeader(h) \o Zeros(h.size.lo - h.header_size),
              0, h.size.lo, TRUE, 0, h) : h \in ValidHeaders}

\* The loop of mp4_find_box from the box at `current`, `remaining` bytes
\* being left.  box is the pointer returned, box_size what *box_size holds
\* (0 standing for a *box_size the call did not write).
RECURSIVE FindBoxLoop_StepsHeader(_, _, _, _)
FindBoxLoop_StepsHeader(mem, current, remaining, box_type) ==
    IF remaining < 8
    THEN [box |-> NULL, box_size |-> 0]
    ELSE With([r \in {mp4_parse_box_header(mem, current, remaining, TRUE)} |->
         IF r.rc # SONIX_OK
         THEN [box |-> NULL, box_size |-> 0]
         ELSE IF r.header.type = box_type
         THEN [box |-> current, box_size |-> r.header.size.lo]
         ELSE FindBoxLoop_StepsHeader(mem, current + r.header.header_size,
                          remaining - r.header.header_size, box_type)])

RECURSIVE FindBoxLoop(_, _, _, _)
FindBoxLoop(mem, current, remaining, box_type) ==
    IF remaining < 8
    THEN [box |-> NULL, box_size |-> 0]
    ELSE With([r \in {mp4_parse_box_header(mem, current, remaining, TRUE)} |->
         IF r.rc # SONIX_OK
         THEN [box |-> NULL, box_size |-> 0]
         ELSE IF r.header.type = box_type
         THEN [box |-> current, box_size |-> r.header.size.lo]
         ELSE IF Above(r.header.size, remaining)
         THEN [box |-> NULL, box_size |-> 0]
         ELSE FindBoxLoop(mem, current + r.header.size.lo,
                          remaining - r.header.size.lo, box_type)])

\* mp4_find_box(data, data_size, box_type, box_size): box_size tells whether
\* the fourth argument is non-null.
mp4_find_box(mem, data, data_size, box_type, box_size) ==
    IF data = NULL \/ ~box_size
    THEN [box |-> NULL, box_size |-> 0]
    ELSE FindBoxLoop(mem, data, data_size, box_type)

\* A box: its header in the 8-byte or the 16-byte form, then its payload.
Box(type, header_size, payload) ==
    EncodeHeader([size |-> U64(header_size + Len(payload)), type |-> type,
                  header_size |-> header_size]) \o payload

RECURSIVE Concat(_)
Concat(seqs) == IF seqs = <<>> THEN <<>> ELSE Head(seqs) \o Concat(Tail(seqs))

\* Buffers holding a contiguous sequence of sibling boxes, and a type to
\* look for.  A layout lists the type, header form and size of each box.
MaxSiblings == 3
SiblingShapes ==
    {s \in [type : {BOX_TYPE_FTYP, BOX_TYPE_MDHD, BOX_TYPE_MOOV},
            header_size : {8, 16}, size : {8, 12, 16}] :
        s.size = 16 <=> s.header_size = 16}
SiblingInputs ==
    {LET mem == Concat([i \in 1..Len(layout) |->
                           Box(layout[i].type, layout[i].header_size,
                               Zeros(layout[i].size - layout[i].header_size))])
     IN  BoxInput("siblings", mem, 0, Len(mem), TRUE, box_type, layout) :
        layout \in SeqsOf(SiblingShapes, 1, MaxSiblings),
        box_type \in {BOX_TYPE_FTYP, BOX_TYPE_MDHD, BOX_TYPE_MOOV, BOX_TYPE_HDLR}}

CallFindBox ==
    /\ box.call = "none"
    /\ box.family = "siblings"
    /\ box' = [box EXCEPT !.call = "mp4_find_box",
                          !.result = mp4_find_box(box.mem, box.data, box.data_size,
                                                  box.box_type, box.header)]
    /\ UNCHANGED <<format, source, src_channels, decoder, mp4_ctx, memory, releases,
                   faulted, fed, emitted, last, seeks, loop, whole_file, ffmpeg>>

\* The major brands mp4_validate_ftyp_box accepts: 'isom', 'mp41', 'mp42',
\* 'M4A ' and 'M4B '.
SupportedBrands == {1769172845, 1836069937, 1836069938, 1295270176, 1295270432}

mp4_validate_ftyp_box_BrandAtEight(mem, data, size) ==
    IF data = NULL \/ size < 16
    THEN SONIX_ERROR_INVALID_DATA
    ELSE With([r \in {mp4_parse_box_header(mem, data, size, TRUE)} |->
         IF r.rc # SONIX_OK THEN r.rc
         ELSE IF r.header.type # BOX_TYPE_FTYP THEN SONIX_ERROR_MP4_CONTAINER_INVALID
         ELSE IF read_be32(mem, data + 8) \in SupportedBrands
         THEN SONIX_OK
         ELSE SONIX_ERROR_MP4_UNSUPPORTED_CODEC])

\* mp4_validate_ftyp_box(data, size).  The brand is read at header_size
\* whether or not the data reaches that far.
mp4_validate_ftyp_box(mem, data, size) ==
    IF data = NULL \/ size < 16
    THEN SONIX_ERROR_INVALID_DATA
    ELSE With([r \in {mp4_parse_box_header(mem, data, size, TRUE)} |->
         IF r.rc # SONIX_OK THEN r.rc
         ELSE IF r.header.type # BOX_TYPE_FTYP THEN SONIX_ERROR_MP4_CONTAINER_INVALID
         ELSE IF read_be32(mem, data + r.header.header_size) \in SupportedBrands
         THEN SONIX_OK
         ELSE SONIX_ERROR_MP4_UNSUPPORTED_CODEC])

\* The number of bytes from data on that mp4_validate_ftyp_box(data, size)
\* reads: none below 16 bytes, the header (mp4_parse_box_header reads 8
\* bytes, and 8 more when the size field is 1), and the four bytes of the
\* brand at header_size when the header parses and the type is ftyp.
FtypReadEnd(mem, data, size) ==
    IF data = NULL \/ size < 16
    THEN 0
    ELSE With([r \in {mp4_parse_box_header(mem, data, size, TRUE)} |->
         IF r.rc # SONIX_OK \/ r.header.type # BOX_TYPE_FTYP
         THEN IF read_be32(mem, data) = 1 THEN 16 ELSE 8
         ELSE r.header.header_size + 4])

\* What a read past the end of a buffer finds there: any bytes.  The model
\* draws them from two fillings of the memory behind the buffer.
MaxOverRead == 4
Beyond == {Zeros(MaxOverRead), [i \in 1..MaxOverRead |-> be32(1769172845)[((i - 1) % 4) + 1]]}

\* Boxes of type ftyp or of another type with a brand in the brand
\* position, a payload cut to payload_len bytes, and the call given the
\* whole box or its first data_size bytes.
FtypInputs ==
    {LET payload == Slice(be32(e.brand) \o be32(512) \o be32(e.brand) \o be32(0),
                          0, e.payload_len)
         whole == Box(e.type, e.header_size, payload)
         data_size == IF e.data_size > Len(whole) THEN Len(whole) ELSE e.data_size
     IN  BoxInput("ftyp", Slice(whole, 0, data_size), 0, data_size, TRUE, 0,
                  [e EXCEPT !.data_size = data_size, !.whole = (data_size = Len(whole))]) :
        e \in [type : {BOX_TYPE_FTYP, BOX_TYPE_MOOV},
               brand : SupportedBrands \cup {1903435808, 0},
               header_size : {8, 16}, payload_len : {0, 2, 4, 7, 8, 16},
               data_size : {8, 15, 16, 20, 32}, whole : {FALSE}]}

CallValidateFtyp ==
    /\ box.call = "none"
    /\ box.family = "ftyp"
    /\ \E beyond \in Beyond :
           box' = [box EXCEPT !.call = "mp4_validate_ftyp_box",
                              !.result = mp4_validate_ftyp_box(box.mem \o beyond, box.data,
                                                               box.data_size)]
    /\ UNCHANGED <<format, source, src_channels, decoder, mp4_ctx, memory, releases,
                   faulted, fed, emitted, last, seeks, loop, whole_file, ffmpeg>>

\* The Mp4MediaHeader a failed mp4_parse_mdhd_box leaves as it was.
NoMediaHeader ==
    [creation_time |-> U64(0), modification_time |-> U64(0), timescale |-> 0,
     duration |-> U64(0)]

mp4_parse_mdhd_box_ShortTimescale(mem, data, size, mdhd) ==
    IF data = NULL \/ ~mdhd \/ size < 24
    THEN [rc |-> SONIX_ERROR_INVALID_DATA, mdhd |-> NoMediaHeader]
    ELSE With([r \in {mp4_parse_box_header(mem, data, size, TRUE)} |->
         IF r.rc # SONIX_OK
         THEN [rc |-> r.rc, mdhd |-> NoMediaHeader]
         ELSE IF r.header.type # BOX_TYPE_MDHD
         THEN [rc |-> SONIX_ERROR_MP4_CONTAINER_INVALID, mdhd |-> NoMediaHeader]
         ELSE With([box_data \in {data + r.header.header_size} |->
              With([version \in {ByteAt(mem, box_data, 0)} |->
              IF version = 0
              THEN IF Below(r.header.size, r.header.header_size + 20)
                   THEN [rc |-> SONIX_ERROR_INVALID_DATA, mdhd |-> NoMediaHeader]
                   ELSE [rc |-> SONIX_OK,
                         mdhd |-> [creation_time |-> U64(read_be32(mem, box_data + 4)),
                                   modification_time |-> U64(read_be32(mem, box_data + 8)),
                                   timescale |-> read_be32(mem, box_data + 12),
                                   duration |-> U64(read_be32(mem, box_data + 16))]]
              ELSE IF version = 1
              THEN IF Below(r.header.size, r.header.header_size + 32)
                   THEN [rc |-> SONIX_ERROR_INVALID_DATA, mdhd |-> NoMediaHeader]
                   ELSE [rc |-> SONIX_OK,
                         mdhd |-> [creation_time |-> read_be64(mem, box_data + 4),
                                   modification_time |-> read_be64(mem, box_data + 12),
                                   timescale |-> read_be32(mem, box_data + 12),
                                   duration |-> read_be64(mem, box_data + 24)]]
              ELSE [rc |-> SONIX_ERROR_MP4_CONTAINER_INVALID, mdhd |-> NoMediaHeader]])])])

\* mp4_parse_mdhd_box(data, size, mdhd): mdhd tells whether the third
\* argument is non-null.
mp4_parse_mdhd_box(mem, data, size, mdhd) ==
    IF data = NULL \/ ~mdhd \/ size < 24
    THEN [rc |-> SONIX_ERROR_INVALID_DATA, mdhd |-> NoMediaHeader]
    ELSE With([r \in {mp4_parse_box_header(mem, data, size, TRUE)} |->
         IF r.rc # SONIX_OK
         THEN [rc |-> r.rc, mdhd |-> NoMediaHeader]
         ELSE IF r.header.type # BOX_TYPE_MDHD
         THEN [rc |-> SONIX_ERROR_MP4_CONTAINER_INVALID, mdhd |-> NoMediaHeader]
         ELSE With([box_data \in {data + r.header.header_size} |->
              With([version \in {ByteAt(mem, box_data, 0)} |->
              IF version = 0
              THEN IF Below(r.header.size, r.header.header_size + 20)
                   THEN [rc |-> SONIX_ERROR_INVALID_DATA, mdhd |-> NoMediaHeader]
                   ELSE [rc |-> SONIX_OK,
                         mdhd |-> [creation_time |-> U64(read_be32(mem, box_data + 4)),
                                   modification_time |-> U64(read_be32(mem, box_data + 8)),
                                   timescale |-> read_be32(mem, box_data + 12),
                                   duration |-> U64(read_be32(mem, box_data + 16))]]
              ELSE IF version = 1
              THEN IF Below(r.header.size, r.header.header_size + 32)
                   THEN [rc |-> SONIX_ERROR_INVALID_DATA, mdhd |-> NoMediaHeader]
                   ELSE [rc |-> SONIX_OK,
                         mdhd |-> [creation_time |-> read_be64(mem, box_data + 4),
                                   modification_time |-> read_be64(mem, box_data + 12),
                                   timescale |-> read_be32(mem, box_data + 20),
                                   duration |-> read_be64(mem, box_data + 24)]]
              ELSE [rc |-> SONIX_ERROR_MP4_CONTAINER_INVALID, mdhd |-> NoMediaHeader]])])])

be64(size) == be32(size.hi) \o be32(size.lo)

\* The payload of an mdhd box of a version with the given field values, as
\* a writer lays it out: version and flags, then the fields in the widths of
\* the version (those of version 0 for any other version byte), then
\* language and pre_defined.
MdhdPayload(version, f) ==
    <<version, 0, 0, 0>>
        \o (IF version = 1
            THEN be64(f.creation_time) \o be64(f.modification_time)
                     \o be32(f.timescale) \o be64(f.duration)
            ELSE be32(f.creation_time.lo) \o be32(f.modification_time.lo)
                     \o be32(f.timescale) \o be32(f.duration.lo))
        \o <<85, 196, 0, 0>>

\* Boxes of type mdhd or of another type, of version 0, 1 or 2, in either
\* header form, with the payload cut to payload_len bytes (or filled up to
\* it with zeros).
MdhdInputs ==
    {LET full == MdhdPayload(e.version, e.fields)
         payload == IF e.payload_len <= Len(full) THEN Slice(full, 0, e.payload_len)
                    ELSE full \o Zeros(e.payload_len - Len(full))
         mem == Box(e.type, e.header_size, payload)
     IN  BoxInput("mdhd", mem, 0, Len(mem), TRUE, 0, e) :
        e \in [type : {BOX_TYPE_MDHD, BOX_TYPE_FTYP}, version : {0, 1, 2},
               header_size : {8, 16},
               payload_len : {0, 4, 8, 15, 16, 19, 20, 24, 31, 32, 36, 40},
               fields : {[creation_time |-> U64(1), modification_time |-> U64(2),
                          timescale |-> 44100, duration |-> U64(90000)],
                         [creation_time |-> [hi |-> 3, lo |-> 4],
                          modification_time |-> [hi |-> 5, lo |-> 6],
                          timescale |-> 48000, duration |-> [hi |-> 7, lo |-> 8]]}]}

CallParseMdhd ==
    /\ box.call = "none"
    /\ box.family = "mdhd"
    /\ box' = [box EXCEPT !.call = "mp4_parse_mdhd_box",
                          !.result = mp4_parse_mdhd_box(box.mem, box.data, box.data_size,
                                                        box.header)]
    /\ UNCHANGED <<format, source, src_channels, decoder, mp4_ctx, memory, releases,
                   faulted, fed, emitted, last, seeks, loop, whole_file, ffmpeg>>

\* mp4_parse_hdlr_box(data, size, hdlr): hdlr tells whether the third
\* argument is non-null.
mp4_parse_hdlr_box(mem, data, size, hdlr) ==
    IF data = NULL \/ ~hdlr \/ size < 24
    THEN [rc |-> SONIX_ERROR_INVALID_DATA, hdlr |-> [handler_type |-> 0, is_audio |-> FALSE]]
    ELSE With([r \in {mp4_parse_box_header(mem, data, size, TRUE)} |->
         IF r.rc # SONIX_OK
         THEN [rc |-> r.rc, hdlr |-> [handler_type |-> 0, is_audio |-> FALSE]]
         ELSE IF r.header.type # BOX_TYPE_HDLR
         THEN [rc |-> SONIX_ERROR_MP4_CONTAINER_INVALID,
               hdlr |-> [handler_type |-> 0, is_audio |-> FALSE]]
         ELSE With([handler_type \in {read_be32(mem, data + r.header.header_size + 8)} |->
              [rc |-> SONIX_OK,
               hdlr |-> [handler_type |-> handler_type,
                         is_audio |-> (handler_type = HANDLER_TYPE_SOUN)]]])])

\* mp4_parse_stsd_box with the sample rate read from the low half of the
\* 16.16 value.
mp4_parse_stsd_box_LowHalfRate(mem, data, size, stsd) ==
    IF data = NULL \/ size < 16
    THEN [rc |-> SONIX_ERROR_INVALID_DATA, stsd |-> stsd]
    ELSE With([r \in {mp4_parse_box_header(mem, data, size, TRUE)} |->
         IF r.rc # SONIX_OK THEN [rc |-> r.rc, stsd |-> stsd]
         ELSE IF r.header.type # BOX_TYPE_STSD
         THEN [rc |-> SONIX_ERROR_MP4_CONTAINER_INVALID, stsd |-> stsd]
         ELSE With([box_data \in {data + r.header.header_size} |->
              IF read_be32(mem, box_data + 4) = 0
              THEN [rc |-> SONIX_ERROR_MP4_NO_AUDIO_TRACK, stsd |-> stsd]
              ELSE With([entry_data \in {box_data + 8} |->
                   IF entry_data + 16 > data + size
                   THEN [rc |-> SONIX_ERROR_INVALID_DATA, stsd |-> stsd]
                   ELSE With([codec_type \in {read_be32(mem, entry_data + 4)} |->
                        With([written \in {[stsd EXCEPT !.codec_type = codec_type,
                                          !.is_supported = IF codec_type = CODEC_TYPE_MP4A
                                                           THEN 1 ELSE 0]} |->
                        IF written.is_supported = 1 /\ read_be32(mem, entry_data) >= 36
                        THEN [rc |-> SONIX_OK,
                              stsd |-> [written EXCEPT
                                           !.channels = read_be16(mem, entry_data + 24),
                                           !.sample_size = read_be16(mem, entry_data + 26),
                                           !.sample_rate = read_be16(mem, entry_data + 34)]]
                        ELSE [rc |-> SONIX_OK, stsd |-> written]])])])])])

\* mp4_parse_stsd_box(data, size, stsd): stsd is the Mp4SampleDescription the
\* third argument points to, of which the call writes some fields.  The
\* sample rate, read_be32(entry_data + 32) >> 16, is the 16-bit value at
\* entry_data + 32.
mp4_parse_stsd_box(mem, data, size, stsd) ==
    IF data = NULL \/ size < 16
    THEN [rc |-> SONIX_ERROR_INVALID_DATA, stsd |-> stsd]
    ELSE With([r \in {mp4_parse_box_header(mem, data, size, TRUE)} |->
         IF r.rc # SONIX_OK THEN [rc |-> r.rc, stsd |-> stsd]
         ELSE IF r.header.type # BOX_TYPE_STSD
         THEN [rc |-> SONIX_ERROR_MP4_CONTAINER_INVALID, stsd |-> stsd]
         ELSE With([box_data \in {data + r.header.header_size} |->
              IF read_be32(mem, box_data + 4) = 0
              THEN [rc |-> SONIX_ERROR_MP4_NO_AUDIO_TRACK, stsd |-> stsd]
              ELSE With([entry_data \in {box_data + 8} |->
                   IF entry_data + 16 > data + size
                   THEN [rc |-> SONIX_ERROR_INVALID_DATA, stsd |-> stsd]
                   ELSE With([codec_type \in {read_be32(mem, entry_data + 4)} |->
                        With([written \in {[stsd EXCEPT !.codec_type = codec_type,
                                          !.is_supported = IF codec_type = CODEC_TYPE_MP4A
                                                           THEN 1 ELSE 0]} |->
                        IF written.is_supported = 1 /\ read_be32(mem, entry_data) >= 36
                        THEN [rc |-> SONIX_OK,
                              stsd |-> [written EXCEPT
                                           !.channels = read_be16(mem, entry_data + 24),
                                           !.sample_size = read_be16(mem, entry_data + 26),
                                           !.sample_rate = read_be16(mem, entry_data + 32)]]
                        ELSE [rc |-> SONIX_OK, stsd |-> written]])])])])])

\* The Mp4SampleTable after memset.
NoSampleTable ==
    [sample_count |-> 0, chunk_count |-> 0, default_sample_size |-> 0,
     has_sample_sizes |-> 0, has_chunk_offsets |-> 0]

\* mp4_parse_sample_table(stbl_data, stbl_size, sample_table), both
\* pointers non-null.
mp4_parse_sample_table(mem, stbl_data, stbl_size) ==
    With([stsz_box \in {mp4_find_box(mem, stbl_data, stbl_size, BOX_TYPE_STSZ, TRUE)} |->
    With([with_sizes \in {IF stsz_box.box = NULL THEN NoSampleTable
         ELSE With([header \in {mp4_parse_box_header(mem, stsz_box.box, stsz_box.box_size, TRUE)}
                   |->
              IF header.rc # SONIX_OK THEN NoSampleTable
              ELSE With([stsz_data \in {stsz_box.box + header.header.header_size} |->
                   With([default_size \in {read_be32(mem, stsz_data + 4)} |->
                   With([sample_count \in {read_be32(mem, stsz_data + 8)} |->
                   IF default_size = 0 /\ sample_count > 0
                   THEN [NoSampleTable EXCEPT !.sample_count = sample_count,
                                              !.has_sample_sizes = 1]
                   ELSE [NoSampleTable EXCEPT !.sample_count = sample_count,
                                              !.default_sample_size = default_size,
                                              !.has_sample_sizes = 1]])])])])}
         |->
    With([stco32 \in {mp4_find_box(mem, stbl_data, stbl_size, BOX_TYPE_STCO, TRUE)} |->
    With([stco_box \in {IF stco32.box # NULL THEN stco32
         ELSE mp4_find_box(mem, stbl_data, stbl_size, BOX_TYPE_CO64, TRUE)}
         |->
    IF stco_box.box = NULL
    THEN [rc |-> SONIX_OK, sample_table |-> with_sizes]
    ELSE With([header \in {mp4_parse_box_header(mem, stco_box.box, stco_box.box_size, TRUE)}
              |->
         IF header.rc # SONIX_OK
         THEN [rc |-> SONIX_OK, sample_table |-> with_sizes]
         ELSE [rc |-> SONIX_OK,
               sample_table |->
                   [with_sizes EXCEPT
                       !.chunk_count = read_be32(mem, stco_box.box
                                                          + header.header.header_size + 4),
                       !.has_chunk_offsets = 1]]])])])])])

\* The Mp4AudioTrack after memset.
NoAudioTrack ==
    [track_id |-> 0, media_header |-> NoMediaHeader,
     sample_description |-> [codec_type |-> 0, is_supported |-> 0, channels |-> 0,
                             sample_size |-> 0, sample_rate |-> 0],
     sample_table |-> NoSampleTable, is_valid |-> 0]

\* The body of the loop of mp4_find_audio_track on one trak box
\* (mp4_container.c:339-401): whether it returns SONIX_OK, and the
\* Mp4AudioTrack as it leaves it.
ParseTrack(mem, trak_data, trak_content_size, audio_track) ==
    With([mdia_box \in {mp4_find_box(mem, trak_data, trak_content_size, BOX_TYPE_MDIA, TRUE)}
         |->
    IF mdia_box.box = NULL THEN [found |-> FALSE, audio_track |-> audio_track]
    ELSE
    With([mdia_header \in {mp4_parse_box_header(mem, mdia_box.box, mdia_box.box_size, TRUE)}
         |->
    IF mdia_header.rc # SONIX_OK THEN [found |-> FALSE, audio_track |-> audio_track]
    ELSE
    With([mdia_data \in {mdia_box.box + mdia_header.header.header_size} |->
    With([mdia_content_size \in {mdia_box.box_size - mdia_header.header.header_size} |->
    With([hdlr_box \in {mp4_find_box(mem, mdia_data, mdia_content_size, BOX_TYPE_HDLR, TRUE)}
         |->
    IF hdlr_box.box = NULL THEN [found |-> FALSE, audio_track |-> audio_track]
    ELSE
    With([hdlr \in {mp4_parse_hdlr_box(mem, hdlr_box.box, hdlr_box.box_size, TRUE)} |->
    IF hdlr.rc # SONIX_OK \/ ~hdlr.hdlr.is_audio
    THEN [found |-> FALSE, audio_track |-> audio_track]
    ELSE
    With([mdhd_box \in {mp4_find_box(mem, mdia_data, mdia_content_size, BOX_TYPE_MDHD, TRUE)}
         |->
    With([with_mdhd \in {IF mdhd_box.box = NULL THEN [audio_track EXCEPT !.track_id = 1]
         ELSE With([mdhd \in {mp4_parse_mdhd_box(mem, mdhd_box.box, mdhd_box.box_size, TRUE)}
                   |->
              IF mdhd.rc = SONIX_OK
              THEN [audio_track EXCEPT !.track_id = 1, !.media_header = mdhd.mdhd]
              ELSE [audio_track EXCEPT !.track_id = 1]])}
         |->
    With([minf_box \in {mp4_find_box(mem, mdia_data, mdia_content_size, BOX_TYPE_MINF, TRUE)}
         |->
    IF minf_box.box = NULL THEN [found |-> FALSE, audio_track |-> with_mdhd]
    ELSE
    With([minf_header \in {mp4_parse_box_header(mem, minf_box.box, minf_box.box_size, TRUE)}
         |->
    IF minf_header.rc # SONIX_OK THEN [found |-> FALSE, audio_track |-> with_mdhd]
    ELSE
    With([stbl_box \in {mp4_find_box(mem, minf_box.box + minf_header.header.header_size,
                      minf_box.box_size - minf_header.header.header_size,
                      BOX_TYPE_STBL, TRUE)}
         |->
    IF stbl_box.box = NULL THEN [found |-> FALSE, audio_track |-> with_mdhd]
    ELSE
    With([stbl_header \in {mp4_parse_box_header(mem, stbl_box.box, stbl_box.box_size, TRUE)}
         |->
    IF stbl_header.rc # SONIX_OK THEN [found |-> FALSE, audio_track |-> with_mdhd]
    ELSE
    With([stbl_data \in {stbl_box.box + stbl_header.header.header_size} |->
    With([stbl_content_size \in {stbl_box.box_size - stbl_header.header.header_size} |->
    With([stsd_box \in {mp4_find_box(mem, stbl_data, stbl_content_size, BOX_TYPE_STSD, TRUE)}
         |->
    With([with_stsd \in {IF stsd_box.box = NULL THEN with_mdhd
         ELSE [with_mdhd EXCEPT
                  !.sample_description =
                      mp4_parse_stsd_box(mem, stsd_box.box, stsd_box.box_size,
                                         with_mdhd.sample_description).stsd]}
         |->
    [found |-> TRUE,
     audio_track |->
         [with_stsd EXCEPT
             !.sample_table =
                 mp4_parse_sample_table(mem, stbl_data, stbl_content_size).sample_table,
             !.is_valid = 1]]])])])])])])])])])])])])])])])])

\* The loop of mp4_find_audio_track (mp4_container.c:326-411).  trak is the
\* trak box the returned track was read from (NULL when none is returned).
RECURSIVE FindTrackLoop(_, _, _, _, _)
FindTrackLoop(mem, moov_end, current, remaining, audio_track) ==
    IF remaining < 8
    THEN [rc |-> SONIX_ERROR_MP4_NO_AUDIO_TRACK, audio_track |-> audio_track, trak |-> NULL]
    ELSE
    With([trak \in {mp4_find_box(mem, current, remaining, BOX_TYPE_TRAK, TRUE)} |->
    IF trak.box = NULL
    THEN [rc |-> SONIX_ERROR_MP4_NO_AUDIO_TRACK, audio_track |-> audio_track, trak |-> NULL]
    ELSE
    With([trak_header \in {mp4_parse_box_header(mem, trak.box, trak.box_size, TRUE)} |->
    IF trak_header.rc # SONIX_OK
    THEN [rc |-> SONIX_ERROR_MP4_NO_AUDIO_TRACK, audio_track |-> audio_track, trak |-> NULL]
    ELSE
    With([parsed \in {ParseTrack(mem, trak.box + trak_header.header.header_size,
                    trak.box_size - trak_header.header.header_size, audio_track)}
         |->
    IF parsed.found
    THEN [rc |-> SONIX_OK, audio_track |-> parsed.audio_track, trak |-> trak.box]
    ELSE IF trak.box_size > remaining
    THEN [rc |-> SONIX_ERROR_MP4_NO_AUDIO_TRACK, audio_track |-> parsed.audio_track,
          trak |-> NULL]
    ELSE With([next \in {trak.box + trak.box_size} |->
         FindTrackLoop(mem, moov_end, next,
                       IF next < moov_end THEN moov_end - next ELSE 0,
                       parsed.audio_track)])])])])

\* mp4_find_audio_track(moov_data, moov_size, audio_track): audio_track
\* tells whether the third argument is non-null.
mp4_find_audio_track(mem, moov_data, moov_size, audio_track) ==
    IF moov_data = NULL \/ ~audio_track
    THEN [rc |-> SONIX_ERROR_INVALID_DATA, audio_track |-> NoAudioTrack, trak |-> NULL]
    ELSE With([moov_header \in {mp4_parse_box_header(mem, moov_data, moov_size, TRUE)} |->
         IF moov_header.rc # SONIX_OK
         THEN [rc |-> SONIX_ERROR_MP4_CONTAINER_INVALID, audio_track |-> NoAudioTrack,
               trak |-> NULL]
         ELSE FindTrackLoop(mem, moov_data + moov_size,
                            moov_data + moov_header.header.header_size,
                            moov_size - moov_header.header.header_size, NoAudioTrack)])

\* mp4_validate_container(data, size).
mp4_validate_container(mem, data, size) ==
    IF data = NULL \/ size < 32
    THEN SONIX_ERROR_INVALID_DATA
    ELSE
    With([ftyp_box \in {mp4_find_box(mem, data, size, BOX_TYPE_FTYP, TRUE)} |->
    IF ftyp_box.box = NULL THEN SONIX_ERROR_MP4_CONTAINER_INVALID
    ELSE
    With([result \in {mp4_validate_ftyp_box(mem, ftyp_box.box, ftyp_box.box_size)} |->
    IF result # SONIX_OK THEN result
    ELSE
    With([moov_box \in {mp4_find_box(mem, data, size, BOX_TYPE_MOOV, TRUE)} |->
    IF moov_box.box = NULL THEN SONIX_ERROR_MP4_CONTAINER_INVALID
    ELSE
    With([track \in {mp4_find_audio_track(mem, moov_box.box, moov_box.box_size, TRUE)} |->
    IF track.rc # SONIX_OK THEN track.rc
    ELSE IF track.audio_track.is_valid = 0
            \/ track.audio_track.sample_description.is_supported = 0
    THEN SONIX_ERROR_MP4_UNSUPPORTED_CODEC
    ELSE SONIX_OK])])])])

\* A trak box as a writer lays it out: trak > mdia > (hdlr, mdhd, minf >
\* stbl > (stsd, stsz, stco)).  k tells the handler type, whether the mdhd
\* box is well-formed ("ok"), absent ("missing") or of version 2 ("bad"),
\* whether the stsd box holds an mp4a entry ("ok"), an entry of another
\* codec ("other"), no entry ("bad") or is absent ("missing"), and whether
\* minf holds an stbl box.
TrakBox(k) ==
    LET hdlr == Box(BOX_TYPE_HDLR, 8, Zeros(8) \o be32(k.handler) \o Zeros(4))
        fields == [creation_time |-> U64(1), modification_time |-> U64(2),
                   timescale |-> 44100, duration |-> U64(90000)]
        mdhd == IF k.mdhd = "missing" THEN <<>>
                ELSE Box(BOX_TYPE_MDHD, 8,
                         MdhdPayload(IF k.mdhd = "ok" THEN 0 ELSE 2, fields))
        entry == be32(36) \o be32(IF k.stsd = "ok" THEN CODEC_TYPE_MP4A ELSE BOX_TYPE_FTYP)
                     \o Zeros(6) \o <<0, 1>> \o Zeros(8) \o <<0, 2, 0, 16>> \o Zeros(4)
                     \o <<172, 68, 0, 0>>
        stsd == IF k.stsd = "missing" THEN <<>>
                ELSE IF k.stsd = "bad" THEN Box(BOX_TYPE_STSD, 8, Zeros(4) \o be32(0))
                ELSE Box(BOX_TYPE_STSD, 8, Zeros(4) \o be32(1) \o entry)
        stsz == Box(BOX_TYPE_STSZ, 8, Zeros(4) \o be32(0) \o be32(5))
        stco == Box(BOX_TYPE_STCO, 8, Zeros(4) \o be32(3))
        minf == Box(BOX_TYPE_MINF, 8,
                    IF k.stbl THEN Box(BOX_TYPE_STBL, 8, stsd \o stsz \o stco) ELSE <<>>)
    IN  Box(BOX_TYPE_TRAK, 8, Box(BOX_TYPE_MDIA, 8, mdhd \o hdlr \o minf))

\* The traks of the inputs: the complete audio trak and the traks that
\* differ from it in one respect (1986618469 is the handler type 'vide').
TrakKinds ==
    {k \in [handler : {HANDLER_TYPE_SOUN, 1986618469}, mdhd : {"ok", "missing", "bad"},
            stsd : {"ok", "other", "bad", "missing"}, stbl : BOOLEAN] :
        Cardinality({f \in {"handler", "mdhd", "stsd", "stbl"} :
                        \/ f = "handler" /\ k.handler # HANDLER_TYPE_SOUN
                        \/ f = "mdhd" /\ k.mdhd # "ok"
                        \/ f = "stsd" /\ k.stsd # "ok"
                        \/ f = "stbl" /\ ~k.stbl}) <= 1}

MaxTraks == 2
MoovBox(traks) == Box(BOX_TYPE_MOOV, 8, Concat([i \in 1..Len(traks) |-> TrakBox(traks[i])]))

\* A moov box holding up to MaxTraks traks.
MoovInputs ==
    {LET mem == MoovBox(traks)
     IN  BoxInput("moov", mem, 0, Len(mem), TRUE, 0, [traks |-> traks]) :
        traks \in SeqsOf(TrakKinds, 0, MaxTraks)}

\* A file: an ftyp box of an accepted brand ("ok") or of another brand
\* ("brand"), an ftyp box of 12 bytes ("short"), or none ("missing"); then
\* a moov box with its traks, or none; then a free box.
ContainerInputs ==
    {LET ftyp == IF e.ftyp = "missing" THEN <<>>
                 ELSE IF e.ftyp = "short" THEN Box(BOX_TYPE_FTYP, 8, be32(1769172845))
                 ELSE Box(BOX_TYPE_FTYP, 8,
                          be32(IF e.ftyp = "ok" THEN 1769172845 ELSE 1903435808)
                              \o be32(512))
         moov == IF e.moov THEN MoovBox(e.traks) ELSE <<>>
         mem == ftyp \o moov \o Box(1718773093, 8, Zeros(24))
     IN  BoxInput("container", mem, 0, Len(mem), TRUE, 0, e) :
        e \in {x \in [ftyp : {"ok", "brand", "short", "missing"}, moov : BOOLEAN,
                      traks : SeqsOf(TrakKinds, 0, MaxTraks)] :
                  ~x.moov => x.traks = <<>>}}

CallFindAudioTrack ==
    /\ box.call = "none"
    /\ box.family = "moov"
    /\ box' = [box EXCEPT !.call = "mp4_find_audio_track",
                          !.result = mp4_find_audio_track(box.mem, box.data,
                                                          box.data_size, box.header)]
    /\ UNCHANGED <<format, source, src_channels, decoder, mp4_ctx, memory, releases,
                   faulted, fed, emitted, last, seeks, loop, whole_file, ffmpeg>>

CallValidateContainer ==
    /\ box.call = "none"
    /\ box.family = "container"
    /\ box' = [box EXCEPT !.call = "mp4_validate_container",
                          !.result = mp4_validate_container(box.mem, box.data,
                                                            box.data_size)]
    /\ UNCHANGED <<format, source, src_channels, decoder, mp4_ctx, memory, releases,
                   faulted, fed, emitted, last, seeks, loop, whole_file, ffmpeg>>

CallParseBoxHeader ==
    /\ box.call = "none"
    /\ box.family \in {"raw", "encoded"}
    /\ box' = [box EXCEPT !.call = "mp4_parse_box_header",
                          !.result = mp4_parse_box_header(box.mem, box.data,
                                                          box.data_size, box.header)]
    /\ UNCHANGED <<format, source, src_channels, decoder, mp4_ctx, memory, releases,
                   faulted, fed, emitted, last, seeks, loop, whole_file, ffmpeg>>

\* A sample entry of an stsd box as a writer lays it out, cut to the size it
\* declares when that is below the 36 bytes of an audio entry: size, codec,
\* reserved and data reference index, reserved, channels, sample size,
\* compression id and packet size, the sample rate in 16.16 fixed point.
SampleEntry(size, codec, a) ==
    Slice(be32(size) \o be32(codec) \o Zeros(6) \o <<0, 1>> \o Zeros(8)
              \o Slice(be32(a.channels), 2, 2) \o Slice(be32(a.sample_size), 2, 2)
              \o Zeros(4) \o Slice(be32(a.sample_rate), 2, 2) \o <<0, 0>>,
          0, IF size < 36 THEN size ELSE 36)

\* Boxes of type stsd or of another type: an entry count, a first entry of
\* a declared size and codec (1634492771 is 'alac'), no or one further
\* entry, the payload cut to payload_len bytes when it is longer, and the
\* Mp4SampleDescription the caller passes in `before`: zeroed, or holding
\* what the memory held.
StsdInputs ==
    {LET payload == Zeros(4) \o be32(e.entry_count)
                        \o SampleEntry(e.entry_size, e.codec, e.audio) \o e.more
         cut == IF e.payload_len < Len(payload) THEN e.payload_len ELSE Len(payload)
         mem == Box(e.type, 8, Slice(payload, 0, cut))
     IN  BoxInput("stsd", mem, 0, Len(mem), TRUE, 0,
                  [e EXCEPT !.payload_len = cut, !.whole = (cut = Len(payload))]) :
        e \in [type : {BOX_TYPE_STSD, BOX_TYPE_FTYP}, entry_count : {0, 1, 2},
               entry_size : {16, 35, 36}, codec : {CODEC_TYPE_MP4A, 1634492771},
               audio : {[channels |-> 2, sample_size |-> 16, sample_rate |-> 44100],
                        [channels |-> 1, sample_size |-> 24, sample_rate |-> 48000]},
               more : {<<>>, SampleEntry(36, CODEC_TYPE_MP4A,
                                         [channels |-> 6, sample_size |-> 8,
                                          sample_rate |-> 8000])},
               payload_len : {8, 44 - MaxOverRead, 80},
               before : {NoAudioTrack.sample_description,
                         [codec_type |-> 7, is_supported |-> 7, channels |-> 7,
                          sample_size |-> 7, sample_rate |-> 7]},
               whole : {FALSE}]}

CallParseStsd ==
    /\ box.call = "none"
    /\ box.family = "stsd"
    /\ \E beyond \in Beyond :
           box' = [box EXCEPT !.call = "mp4_parse_stsd_box",
                              !.result = mp4_parse_stsd_box(box.mem \o beyond, box.data,
                                                            box.data_size,
                                                            box.expect.before)]
    /\ UNCHANGED <<format, source, src_channels, decoder, mp4_ctx, memory, releases,
                   faulted, fed, emitted, last, seeks, loop, whole_file, ffmpeg>>

\* The number of bytes mp4_init_chunked_context reads at most: 8192 in the
\* code, scaled to the files of the model.
header_size_limit == 256

\* mp4_init_chunked_context(file_path) on a file that opens and holds the
\* bytes `file`.  config tells whether the sample description holds a
\* decoder configuration and faad what the AAC decoder answers; read_bytes
\* is the number of bytes of the one fread the call makes.
mp4_init_chunked_context(file, config, faad) ==
    IF Len(file) < 32
    THEN [returned |-> "NULL", read_bytes |-> 0]
    ELSE With([read_bytes \in {IF Len(file) < header_size_limit THEN Len(file)
                               ELSE header_size_limit} |->
         With([header_data \in {Slice(file, 0, read_bytes)} |->
         IF mp4_validate_container(header_data, 0, read_bytes) # SONIX_OK
         THEN [returned |-> "NULL", read_bytes |-> read_bytes]
         ELSE With([moov_box \in {mp4_find_box(header_data, 0, read_bytes,
                                               BOX_TYPE_MOOV, TRUE)} |->
         IF moov_box.box = NULL
         THEN [returned |-> "NULL", read_bytes |-> read_bytes]
         ELSE With([track \in {mp4_find_audio_track(header_data, moov_box.box,
                                                    moov_box.box_size, TRUE)} |->
         IF track.rc # SONIX_OK \/ track.audio_track.is_valid = 0
         THEN [returned |-> "NULL", read_bytes |-> read_bytes]
         ELSE IF faad = "open_failed" \/ ~config \/ faad = "init_failed"
         THEN [returned |-> "NULL", read_bytes |-> read_bytes]
         ELSE [returned |-> "context", read_bytes |-> read_bytes]])])])])

\* Files: an ftyp box as in ContainerInputs, a free box that puts the moov
\* box at a place relative to the bytes the call reads, the moov box with
\* its traks (or none), and a free box or nothing behind it.  The places:
\* right behind ftyp; ending at the last byte read; ending one byte behind
\* it; with the 8 bytes of its header the last bytes read; with its header
\* cut after 4 bytes; behind the bytes read.  expect holds the layout and
\* the file offsets at which the moov box starts and ends, and after the
\* call the configuration and the decoder's answer it ran with.
MoovPlaces == {"first", "ends_at_limit", "one_over", "header_only", "header_cut", "beyond"}
FileInputs ==
    {LET ftyp == IF e.ftyp = "missing" THEN Box(1718773093, 8, Zeros(8))
                 ELSE Box(BOX_TYPE_FTYP, 8,
                          be32(IF e.ftyp = "ok" THEN 1769172845 ELSE 1903435808)
                              \o be32(512))
         moov == IF e.moov THEN MoovBox(e.traks) ELSE <<>>
         lead == CASE e.place = "first" -> 0
                   [] e.place = "ends_at_limit" -> header_size_limit - 16 - Len(moov)
                   [] e.place = "one_over" -> header_size_limit - 15 - Len(moov)
                   [] e.place = "header_only" -> header_size_limit - 24
                   [] e.place = "header_cut" -> header_size_limit - 20
                   [] e.place = "beyond" -> header_size_limit - 8
         free == IF lead < 8 THEN <<>> ELSE Box(1718773093, 8, Zeros(lead - 8))
         mem == ftyp \o free \o moov \o e.tail
     IN  BoxInput("file", mem, 0, Len(mem), TRUE, 0,
                  [ftyp |-> e.ftyp, moov |-> e.moov, traks |-> e.traks,
                   place |-> IF lead < 8 THEN "first" ELSE e.place,
                   moov_start |-> 16 + Len(free),
                   moov_end |-> 16 + Len(free) + Len(moov),
                   config |-> FALSE, faad |-> "none"]) :
        e \in {x \in [ftyp : {"ok", "brand", "missing"}, moov : BOOLEAN,
                      traks : SeqsOf(TrakKinds, 0, MaxTraks), place : MoovPlaces,
                      tail : {<<>>, Box(1718773093, 8, Zeros(24))}] :
                  ~x.moov => x.traks = <<>> /\ x.place = "first"}}

CallInitChunkedContext ==
    /\ box.call = "none"
    /\ box.family = "file"
    /\ \E config \in BOOLEAN, faad \in {"ok", "open_failed", "init_failed"} :
           box' = [box EXCEPT !.call = "mp4_init_chunked_context",
                              !.expect = [box.expect EXCEPT !.config = config,
                                                            !.faad = faad],
                              !.result = mp4_init_chunked_context(box.mem, config, faad)]
    /\ UNCHANGED <<format, source, src_channels, decoder, mp4_ctx, memory, releases,
                   faulted, fed, emitted, last, seeks, loop, whole_file, ffmpeg>>

\* No handle takes part in a call of the box parser.
InitBox ==
    /\ format = SONIX_FORMAT_MP4
    /\ source = <<>>
    /\ src_channels = 1
    /\ decoder = InitDecoder(0)
    /\ mp4_ctx = InitMp4Context(1)
    /\ memory = "live"
    /\ releases = [r \in Resources |-> 0]
    /\ faulted = FALSE
    /\ fed = 0
    /\ emitted = <<>>
    /\ last = InitReport
    /\ seeks = 0
    /\ loop = NoLoop
    /\ ffmpeg = NoFfmpeg
    /\ whole_file = NoWhole
    /\ \/ box \in RawHeaderInputs
       \/ box \in EncodedHeaderInputs
       \/ box \in SiblingInputs
       \/ box \in FtypInputs
       \/ box \in MdhdInputs
       \/ box \in MoovInputs
       \/ box \in ContainerInputs
       \/ box \in StsdInputs
       \/ box \in FileInputs

NextBox ==
    \/ CallParseBoxHeader
    \/ CallFindBox
    \/ CallValidateFtyp
    \/ CallParseMdhd
    \/ CallFindAudioTrack
    \/ CallValidateContainer
    \/ CallParseStsd
    \/ CallInitChunkedContext

SpecBox == InitBox /\ [][NextBox]_vars

(***************************************************************************)
(* Whole-file decode: decode_mp3 of sonix_native.c and sonix_decode_audio  *)
(* of sonix_ffmpeg.c, one loop iteration per step, with the capacity of    *)
(* the sample buffer and the extent of every write into it.                *)
(***************************************************************************)
\* Longest stream of a whole-file decode: bytes of an MP3 file, packets of
\* an FFmpeg input.
MaxStream == 3
\* sonix_ffmpeg.c:625 sets min_buffer_samples = 10 * 1024 * 1024 / sizeof(float);
\* the model keeps the comparison against it and scales the floor down.
min_buffer_samples == 40

\* Per-channel samples of one MP3 frame: mp3dec_decode_frame returns 384, 576
\* or 1152, here divided by 96 and 576 left out.
Mp3FrameSamples == {4, 12}

\* What mp3dec_decode_frame answers at one offset of an MP3 file: no frame and
\* no bytes (also the answer of the sync-word check of sonix_native.c:413-421),
\* bytes skipped without samples, or a frame; a frame has its own channels.
Mp3Outcomes ==
    [samples : {0}, channels : {0}, frame_bytes : {0, 1}]
        \cup [samples : Mp3FrameSamples, channels : 1..MaxChannels, frame_bytes : {1, 2}]

\* No write into the sample buffer yet.
NoWrite == [at |-> 0, n |-> 0, capacity |-> 0]

\* sonix_native.c:381-402: the state of decode_mp3 on entry to its loop, for a
\* file that decodes as stream says (stream[offset + 1] at offset).
Mp3Decodes ==
    {[fn |-> "decode_mp3", pc |-> "loop", stream |-> stream, size |-> Len(stream),
      offset |-> 0, total_samples |-> 0, samples_capacity |-> Len(stream) * 10,
      sample_rate |-> 0, channels |-> 0, write |-> NoWrite, grown |-> 0,
      result |-> "running", sample_count |-> 0] :
        stream \in SeqsOf(Mp3Outcomes, 1, MaxStream)}

\* sonix_native.c:454-456: the capacity a write that does not fit grows the
\* buffer to.
samples_capacity_grown(total_samples, frame_samples_total) ==
    (total_samples + frame_samples_total) * 2

\* sonix_native.c:407-472: one iteration of the loop of decode_mp3.
decode_mp3_frame ==
    /\ whole_file.fn = "decode_mp3" /\ whole_file.pc = "loop"
    /\ whole_file.offset < whole_file.size
    /\ LET info == whole_file.stream[whole_file.offset + 1]
           frame_samples_total == info.samples * info.channels
           first == whole_file.sample_rate = 0
           grow == whole_file.total_samples + frame_samples_total > whole_file.samples_capacity
           capacity == IF grow
                       THEN samples_capacity_grown(whole_file.total_samples, frame_samples_total)
                       ELSE whole_file.samples_capacity
           frame_bytes == IF whole_file.size - whole_file.offset < info.frame_bytes
                          THEN whole_file.size - whole_file.offset ELSE info.frame_bytes
       IN  IF info.samples = 0
           THEN whole_file' = [whole_file EXCEPT
                    !.offset = @ + (IF info.frame_bytes = 0 THEN 1 ELSE frame_bytes)]
           ELSE \E realloc_ok \in IF grow THEN BOOLEAN ELSE {TRUE} :
                    IF ~realloc_ok
                    THEN whole_file' = [whole_file EXCEPT !.pc = "returned", !.result = "NULL",
                                                !.samples_capacity = 0]
                    ELSE whole_file' = [whole_file EXCEPT
                             !.sample_rate = IF first THEN SampleRate ELSE @,
                             !.channels = IF first THEN info.channels ELSE @,
                             !.samples_capacity = capacity,
                             !.grown = IF grow THEN @ + 1 ELSE @,
                             !.write = [at |-> whole_file.total_samples,
                                        n |-> frame_samples_total,
                                        capacity |-> capacity],
                             !.total_samples = @ + frame_samples_total,
                             !.offset = @ + frame_bytes]
    /\ UNCHANGED <<format, source, src_channels, decoder, mp4_ctx, memory, releases,
                   faulted, fed, emitted, last, seeks, loop, box, ffmpeg>>

\* sonix_native.c:474-500: after the loop, decode_mp3 fails on a stream without
\* a frame and otherwise shrinks the buffer to what was written and returns it.
decode_mp3_return ==
    /\ whole_file.fn = "decode_mp3" /\ whole_file.pc = "loop"
    /\ whole_file.offset >= whole_file.size
    /\ IF whole_file.total_samples = 0 \/ whole_file.sample_rate = 0 \/ whole_file.channels = 0
       THEN whole_file' = [whole_file EXCEPT !.pc = "returned", !.result = "NULL",
                                   !.samples_capacity = 0]
       ELSE \E shrunk \in BOOLEAN :
                whole_file' = [whole_file EXCEPT !.pc = "returned", !.result = "SonixAudioData",
                              !.samples_capacity = IF shrunk THEN whole_file.total_samples ELSE @,
                              !.sample_count = whole_file.total_samples]
    /\ UNCHANGED <<format, source, src_channels, decoder, mp4_ctx, memory, releases,
                   faulted, fed, emitted, last, seeks, loop, box, ffmpeg>>

\* Per-channel samples of one decoded frame of an FFmpeg input.
NbSamples == {8, 32}

\* What one av_read_frame of sonix_decode_audio yields: a packet of another
\* stream, an audio packet avcodec_send_packet refuses, or an audio packet and
\* the frames (nb_samples of each) avcodec_receive_frame hands out after it.
AvPackets ==
    [audio : {FALSE}, sent : {FALSE}, frames : {<<>>}]
        \cup [audio : {TRUE}, sent : {FALSE}, frames : {<<>>}]
        \cup [audio : {TRUE}, sent : {TRUE},
              frames : SeqsOf(NbSamples, 0, 1) \cup {<<32, 32>>}]

\* sonix_ffmpeg.c:575-629: the capacity sonix_decode_audio allocates, from the
\* estimate of lines 578-615 (stream duration or file size) and the two floors.
estimated_samples(estimate, sample_rate, channels) ==
    With([floored \in {IF estimate < sample_rate * channels * 30
                       THEN sample_rate * channels * 30 ELSE estimate} |->
    IF floored < min_buffer_samples THEN min_buffer_samples ELSE floored])

\* sonix_ffmpeg.c:571-687: the state of sonix_decode_audio on entry to its
\* loop.  held are the frames the decoder has not handed out when the input
\* ends: a decoder that was sent no packet holds none.
AvDecodes ==
    {[fn |-> "sonix_decode_audio", pc |-> "read", packets |-> in.packets,
      pending |-> <<>>, held |-> in.held, ret |-> 0, sample_rate |-> 1,
      channels |-> in.channels, sample_index |-> 0,
      max_samples |-> estimated_samples(in.estimate, 1, in.channels),
      write |-> NoWrite, grown |-> 0, result |-> "running", sample_count |-> 0] :
        in \in {i \in [packets : SeqsOf(AvPackets, 0, MaxStream), held : {<<>>, <<32>>},
                       channels : 1..MaxChannels, estimate : {0, 100}] :
                   i.held # <<>> => \E k \in 1..Len(i.packets) : i.packets[k].sent}}

\* The growth of sonix_ffmpeg.c:714-723 without its second candidate: half as
\* much again, whatever the frame needs.
new_max_samples_HalfAgain(max_samples, required_samples, sample_rate, channels) ==
    max_samples + (max_samples \div 2)

\* sonix_ffmpeg.c:714-723: the capacity a frame that does not fit grows the
\* buffer to.
new_max_samples(max_samples, required_samples, sample_rate, channels) ==
    With([required_with_margin \in {required_samples + sample_rate * channels} |->
    IF max_samples + (max_samples \div 2) < required_with_margin
    THEN required_with_margin
    ELSE max_samples + (max_samples \div 2)])

\* sonix_ffmpeg.c:689-698, 752-756: av_read_frame and avcodec_send_packet of
\* the main loop; at the end of the input, the flush packet.
sonix_decode_audio_read_frame ==
    /\ whole_file.fn = "sonix_decode_audio" /\ whole_file.pc = "read"
    /\ IF whole_file.packets = <<>>
       THEN whole_file' = [whole_file EXCEPT !.pc = "flush"]
       ELSE LET packet == Head(whole_file.packets)
            IN  whole_file' = [whole_file EXCEPT
                    !.packets = Tail(@),
                    !.ret = IF ~packet.audio THEN @ ELSE IF packet.sent THEN 0 ELSE -1,
                    !.pending = packet.frames,
                    !.pc = IF packet.audio /\ packet.sent THEN "receive" ELSE "read"]
    /\ UNCHANGED <<format, source, src_channels, decoder, mp4_ctx, memory, releases,
                   faulted, fed, emitted, last, seeks, loop, box, ffmpeg>>

\* sonix_ffmpeg.c:700-750: one iteration of the inner loop of the main loop,
\* avcodec_receive_frame and the write of the frame.
sonix_decode_audio_receive_frame ==
    /\ whole_file.fn = "sonix_decode_audio" /\ whole_file.pc = "receive"
    /\ IF whole_file.pending = <<>>
       THEN whole_file' = [whole_file EXCEPT !.ret = -1, !.pc = "read"]
       ELSE LET nb_samples == Head(whole_file.pending)
                required_samples == whole_file.sample_index + nb_samples * whole_file.channels
                grow == required_samples > whole_file.max_samples
                capacity == IF grow
                            THEN new_max_samples(whole_file.max_samples, required_samples,
                                                 whole_file.sample_rate, whole_file.channels)
                            ELSE whole_file.max_samples
            IN  \E realloc_ok \in IF grow THEN BOOLEAN ELSE {TRUE} :
                    IF ~realloc_ok
                    THEN whole_file' = [whole_file EXCEPT !.pc = "returned", !.result = "NULL",
                                                !.max_samples = 0]
                    ELSE whole_file' = [whole_file EXCEPT
                             !.ret = 0,
                             !.pending = Tail(@),
                             !.max_samples = capacity,
                             !.grown = IF grow THEN @ + 1 ELSE @,
                             !.write = [at |-> whole_file.sample_index,
                                        n |-> nb_samples * whole_file.channels,
                                        capacity |-> capacity],
                             !.sample_index = @ + nb_samples * whole_file.channels]
    /\ UNCHANGED <<format, source, src_channels, decoder, mp4_ctx, memory, releases,
                   faulted, fed, emitted, last, seeks, loop, box, ffmpeg>>

\* sonix_ffmpeg.c:757-787: one iteration of the flush loop, which runs while
\* ret >= 0, or past the loop the properties of the result.
sonix_decode_audio_flush ==
    /\ whole_file.fn = "sonix_decode_audio" /\ whole_file.pc = "flush"
    /\ IF whole_file.ret >= 0 /\ whole_file.held # <<>>
       THEN whole_file' = [whole_file EXCEPT
                !.held = Tail(@),
                !.write = [at |-> whole_file.sample_index,
                           n |-> Head(whole_file.held) * whole_file.channels,
                           capacity |-> whole_file.max_samples],
                !.sample_index = @ + Head(whole_file.held) * whole_file.channels]
       ELSE whole_file' = [whole_file EXCEPT !.pc = "returned", !.result = "SonixAudioData",
                                   !.sample_count = whole_file.sample_index]
    /\ UNCHANGED <<format, source, src_channels, decoder, mp4_ctx, memory, releases,
                   faulted, fed, emitted, last, seeks, loop, box, ffmpeg>>

\* mp4_decoder.c:227-262: mp4_decode_file once the container is validated and
\* the audio track found: the media header of the track, whether the track has
\* a decoder configuration, and what NeAACDecInit2 reports for it.
Mp4Decodes ==
    {[fn |-> "mp4_decode_file", pc |-> "call", media_header |-> in.media_header,
      has_config |-> in.has_config, sample_rate |-> in.sample_rate,
      channels |-> in.channels, result |-> "running", sample_count |-> 0,
      duration_ms |-> 0] :
        in \in [media_header : [duration : {0, 5, 1000, 2000}, timescale : {0, 1000, 44100}],
                has_config : BOOLEAN, sample_rate : {0, 44100},
                channels : 0..MaxChannels]}

\* mp4_decoder.c:240-296: the rest of mp4_decode_file.  The products stay far
\* below 2^32, where the code's uint32_t arithmetic is exact.
mp4_decode_file ==
    /\ whole_file.fn = "mp4_decode_file" /\ whole_file.pc = "call"
    /\ \E init_result \in {SONIX_OK, SONIX_ERROR_DECODE_FAILED}, allocated \in BOOLEAN :
         LET duration_ms == IF whole_file.media_header.timescale > 0
                            THEN (whole_file.media_header.duration * 1000)
                                     \div whole_file.media_header.timescale
                            ELSE 0
             product == (whole_file.sample_rate * whole_file.channels * duration_ms) \div 1000
             estimated == IF product = 0 THEN 44100 * 2 ELSE product
         IN  IF ~whole_file.has_config \/ init_result # SONIX_OK \/ ~allocated
             THEN whole_file' = [whole_file EXCEPT !.pc = "returned", !.result = "NULL"]
             ELSE whole_file' = [whole_file EXCEPT
                      !.pc = "returned", !.result = "SonixAudioData",
                      !.sample_count = estimated,
                      !.sample_rate = IF @ > 0 THEN @ ELSE 44100,
                      !.channels = IF @ > 0 THEN @ ELSE 2,
                      !.duration_ms = IF duration_ms > 0 THEN duration_ms ELSE 1000]
    /\ UNCHANGED <<format, source, src_channels, decoder, mp4_ctx, memory, releases,
                   faulted, fed, emitted, last, seeks, loop, box, ffmpeg>>

\* No handle takes part in a whole-file decode.
InitWhole ==
    /\ format = SONIX_FORMAT_MP3
    /\ source = <<>>
    /\ src_channels = 1
    /\ decoder = InitDecoder(0)
    /\ mp4_ctx = InitMp4Context(1)
    /\ memory = "live"
    /\ releases = [r \in Resources |-> 0]
    /\ faulted = FALSE
    /\ fed = 0
    /\ emitted = <<>>
    /\ last = InitReport
    /\ seeks = 0
    /\ loop = NoLoop
    /\ ffmpeg = NoFfmpeg
    /\ box = NoBox
    /\ \/ whole_file \in Mp3Decodes
       \/ whole_file \in AvDecodes
       \/ whole_file \in Mp4Decodes

NextWhole ==
    \/ decode_mp3_frame
    \/ decode_mp3_return
    \/ sonix_decode_audio_read_frame
    \/ sonix_decode_audio_receive_frame
    \/ sonix_decode_audio_flush
    \/ mp4_decode_file

SpecWhole == InitWhole /\ [][NextWhole]_vars

(***************************************************************************)
(* The FFmpeg backend (sonix_ffmpeg.c): the process-wide initialization    *)
(* and the chunked decoders, which read their file through FFmpeg.  The    *)
(* functions that share a name with sonix_native.c carry the prefix        *)
(* ffmpeg_ here.                                                           *)
(***************************************************************************)
\* sonix_ffmpeg.c:1056 sets estimated_samples_per_chunk = 8192 and line 1080
\* max_packets_per_chunk = 100; the model keeps every comparison against them
\* and scales both down.
estimated_samples_per_chunk == 8
max_packets_per_chunk == 2

\* The chunked decoders the model follows.
Handles == {"d1", "d2"}

\* What the audio packets of a file decode to, one frame at most per packet:
\* nb_samples of the frame, 0 when avcodec_receive_frame has no frame yet
\* (EAGAIN), -1 when it fails.
AvFrames == {0, 6, -1}

\* The files a decoder is opened on: the packets, and the channel count and
\* total_samples (sonix_ffmpeg.c:986-993, 0 when the stream states no
\* duration) FFmpeg derives from the headers.
AvFiles ==
    [packets : SeqsOf(AvFrames, 0, MaxStream), channels : {1, 2}, total_samples : {0, 8}]

\* A slot no decoder was created in, and the decoder sonix_init_chunked_decoder
\* returns (sonix_ffmpeg.c:884-888, 995).
NoDecoder == [status |-> "none", next |-> 1, total_samples |-> 0, current_sample |-> 0,
              result |-> [returned |-> "none"]]

\* sonix_ffmpeg.c:1082-1153: the loop of sonix_process_file_chunk from state st;
\* next is the packet av_read_frame yields.
RECURSIVE ChunkLoop(_, _)
ChunkLoop(file, st) ==
    IF ~(st.packets_processed < max_packets_per_chunk
             /\ st.samples_processed < estimated_samples_per_chunk)
    THEN st
    ELSE IF st.next > Len(file.packets)
    THEN [st EXCEPT !.is_final_chunk = 1]
    ELSE With([nb_samples \in {file.packets[st.next]} |->
         With([read \in {[st EXCEPT !.next = @ + 1, !.packets_processed = @ + 1]} |->
         IF nb_samples < 0 THEN [read EXCEPT !.failed = TRUE]
         ELSE IF nb_samples = 0 THEN ChunkLoop(file, read)
         ELSE IF st.samples_processed + nb_samples * file.channels
                     > estimated_samples_per_chunk * file.channels
         THEN ChunkLoop(file, read)
         ELSE ChunkLoop(file, [read EXCEPT
                  !.samples_processed = @ + nb_samples * file.channels,
                  !.current_sample = @ + nb_samples * file.channels])])])

\* Variant of ChunkResult: a call that fails keeps the audio data it had
\* gathered (no cleanup at sonix_ffmpeg.c:1182-1186).
ChunkResult_KeepsData(failure, total_samples, st) ==
    IF failure = "result" THEN [returned |-> "NULL"]
    ELSE [returned |-> "result",
          success |-> IF failure # "none" \/ st.failed THEN 0 ELSE 1,
          is_final_chunk |-> IF total_samples > 0 /\ st.current_sample >= total_samples
                             THEN 1 ELSE st.is_final_chunk,
          audio_data |-> "owned", samples |-> "owned",
          sample_count |-> st.samples_processed]

\* sonix_ffmpeg.c:1019-1193: the SonixChunkResult of sonix_process_file_chunk.
\* failure names the allocation that fails, if one does; st is the state the
\* loop ended in.
ChunkResult(failure, total_samples, st) ==
    IF failure = "result" THEN [returned |-> "NULL"]
    ELSE IF failure # "none" \/ st.failed
    THEN [returned |-> "result", success |-> 0, is_final_chunk |-> st.is_final_chunk,
          audio_data |-> "NULL", samples |-> "NULL", sample_count |-> 0]
    ELSE [returned |-> "result", success |-> 1,
          is_final_chunk |-> IF total_samples > 0 /\ st.current_sample >= total_samples
                             THEN 1 ELSE st.is_final_chunk,
          audio_data |-> "owned", samples |-> "owned",
          sample_count |-> st.samples_processed]

\* sonix_init_ffmpeg (sonix_ffmpeg.c:131-170), the libraries being present.
sonix_init_ffmpeg ==
    /\ ffmpeg.backend = "sonix_ffmpeg"
    /\ ffmpeg' = [ffmpeg EXCEPT !.g_ffmpeg_initialized = 1]
    /\ UNCHANGED <<format, source, src_channels, decoder, mp4_ctx, memory, releases,
                   faulted, fed, emitted, last, seeks, loop, box, whole_file>>

\* sonix_cleanup_ffmpeg (sonix_ffmpeg.c:173-195).
sonix_cleanup_ffmpeg ==
    /\ ffmpeg.backend = "sonix_ffmpeg"
    /\ ffmpeg' = [ffmpeg EXCEPT !.g_ffmpeg_initialized = 0]
    /\ UNCHANGED <<format, source, src_channels, decoder, mp4_ctx, memory, releases,
                   faulted, fed, emitted, last, seeks, loop, box, whole_file>>

\* sonix_init_chunked_decoder (sonix_ffmpeg.c:861-1017) on the file of the
\* model; opened tells whether every step after sonix_init_ffmpeg succeeds.
ffmpeg_init_chunked_decoder(h, opened) ==
    /\ ffmpeg.backend = "sonix_ffmpeg"
    /\ ffmpeg.decoders[h].status = "none"
    /\ ffmpeg' = [ffmpeg EXCEPT
           !.g_ffmpeg_initialized = 1,
           !.decoders[h] = IF opened
                           THEN [NoDecoder EXCEPT !.status = "live",
                                     !.total_samples = ffmpeg.file.total_samples]
                           ELSE @]
    /\ UNCHANGED <<format, source, src_channels, decoder, mp4_ctx, memory, releases,
                   faulted, fed, emitted, last, seeks, loop, box, whole_file>>

\* sonix_process_file_chunk (sonix_ffmpeg.c:1019-1193) on a live decoder.
ffmpeg_process_file_chunk(h, failure) ==
    /\ ffmpeg.backend = "sonix_ffmpeg"
    /\ ffmpeg.decoders[h].status = "live"
    /\ LET d == ffmpeg.decoders[h]
           st == IF failure = "none"
                 THEN ChunkLoop(ffmpeg.file,
                          [next |-> d.next, packets_processed |-> 0, samples_processed |-> 0,
                           current_sample |-> d.current_sample, is_final_chunk |-> 0,
                           failed |-> FALSE])
                 ELSE [next |-> d.next, packets_processed |-> 0, samples_processed |-> 0,
                       current_sample |-> d.current_sample, is_final_chunk |-> 0,
                       failed |-> FALSE]
       IN  ffmpeg' = [ffmpeg EXCEPT
               !.decoders[h] = [d EXCEPT !.next = st.next,
                                         !.current_sample = st.current_sample,
                                         !.result = ChunkResult(failure, d.total_samples, st)]]
    /\ UNCHANGED <<format, source, src_channels, decoder, mp4_ctx, memory, releases,
                   faulted, fed, emitted, last, seeks, loop, box, whole_file>>

\* sonix_cleanup_chunked_decoder (sonix_ffmpeg.c:1245-1297) on a live decoder.
ffmpeg_cleanup_chunked_decoder(h) ==
    /\ ffmpeg.backend = "sonix_ffmpeg"
    /\ ffmpeg.decoders[h].status = "live"
    /\ ffmpeg' = [ffmpeg EXCEPT !.decoders[h] = [NoDecoder EXCEPT !.status = "freed"]]
    /\ UNCHANGED <<format, source, src_channels, decoder, mp4_ctx, memory, releases,
                   faulted, fed, emitted, last, seeks, loop, box, whole_file>>

\* The process before its first call into the backend; no handle of
\* sonix_native.c exists.
InitFfmpeg ==
    /\ format = SONIX_FORMAT_MP3
    /\ source = <<>>
    /\ src_channels = 1
    /\ decoder = InitDecoder(0)
    /\ mp4_ctx = InitMp4Context(1)
    /\ memory = "freed"
    /\ releases = [r \in Resources |-> 0]
    /\ faulted = FALSE
    /\ fed = 0
    /\ emitted = <<>>
    /\ last = InitReport
    /\ seeks = 0
    /\ loop = NoLoop
    /\ box = NoBox
    /\ whole_file = NoWhole
    /\ ffmpeg \in [backend : {"sonix_ffmpeg"}, g_ffmpeg_initialized : {0}, file : AvFiles,
                   decoders : {[h \in Handles |-> NoDecoder]}]

\* The allocations of sonix_process_file_chunk that can fail
\* (sonix_ffmpeg.c:1031, 1046-1047, 1061, 1068).
ChunkFailures == {"none", "result", "packet", "samples"}

NextFfmpeg ==
    \/ sonix_init_ffmpeg
    \/ sonix_cleanup_ffmpeg
    \/ \E h \in Handles, opened \in BOOLEAN : ffmpeg_init_chunked_decoder(h, opened)
    \/ \E h \in Handles, failure \in ChunkFailures : ffmpeg_process_file_chunk(h, failure)
    \/ \E h \in Handles : ffmpeg_cleanup_chunked_decoder(h)

SpecFfmpeg == InitFfmpeg /\ [][NextFfmpeg]_vars

(***************************************************************************)
(* process_chunk with its failures, on every backend: SpecChunks drives a  *)
(* handle of sonix_native.c or of mp4_decoder.c, or decoders of the FFmpeg *)
(* backend, through calls in which any allocation may fail.                *)
(***************************************************************************)
\* The loop of process_mp3_chunk up to the malloc of the sample buffer of the
\* frame_no-th frame the call decodes (sonix_native.c:981-993).  `failed`
\* tells whether the loop came to that allocation at all.
RECURSIVE Mp3LoopToAllocation(_, _, _, _)
Mp3LoopToAllocation(st, data, nch, frame_no) ==
    IF ~LoopRuns(st, data) THEN [failed |-> FALSE, st |-> st]
    ELSE IF mp3dec_decode_frame(data, st.processed_bytes, nch).samples > 0
             /\ Len(st.chunks) + 1 = frame_no
    THEN [failed |-> TRUE, st |-> st]
    ELSE Mp3LoopToAllocation(Mp3Iteration(st, data, nch), data, nch, frame_no)

\* process_mp3_chunk when an allocation fails: frame_no = 0 is the malloc of
\* the result or of the chunk array (sonix_native.c:905-922), frame_no > 0 the
\* malloc for that frame (981-993).  The call frees the sample buffers of the
\* chunks it built, the array and the result, and returns NULL; the decoder
\* keeps the properties the failing frame set (952-958).
Mp3ProcessChunkOom(n, frame_no) ==
    /\ format = SONIX_FORMAT_MP3
    /\ memory = "live"
    /\ loop.pc = "idle"
    /\ LET file_chunk == FileChunk(n)
           st0 == LoopStart(0, <<>>, 0)
           run == IF frame_no = 0 THEN [failed |-> TRUE, st |-> st0]
                  ELSE Mp3LoopToAllocation(st0, file_chunk.data, src_channels, frame_no)
       IN  /\ run.failed
           /\ decoder' = IF frame_no > 0 /\ decoder.properties_initialized = 0
                         THEN [decoder EXCEPT !.sample_rate = SampleRate,
                                              !.channels = src_channels,
                                              !.properties_initialized = 1]
                         ELSE decoder
           /\ last' = Report("process", FALSE, SONIX_ERROR_OUT_OF_MEMORY, <<>>,
                             file_chunk.data, <<>>, file_chunk, run.st, <<>>)
    /\ UNCHANGED <<format, source, src_channels, mp4_ctx, memory, releases, faulted,
                   fed, emitted, seeks, loop, box, whole_file, ffmpeg>>

InitChunks == Init \/ InitFfmpeg

NextChunks ==
    \/ \E n \in ChunkSizes : Mp4ProcessChunk(n)
    \/ \E n \in ChunkSizes, frame_no \in 0..Len(source) : Mp4ProcessChunkOom(n, frame_no)
    \/ \E n \in ChunkSizes : Mp3ProcessChunk(n)
    \/ \E n \in ChunkSizes, frame_no \in 0..Len(source) : Mp3ProcessChunkOom(n, frame_no)
    \/ \E n \in ChunkSizes, frames \in 0..MaxFlacFrames :
          frames <= n /\ FlacProcessChunk(n, frames)
    \/ \E h \in Handles, opened \in BOOLEAN : ffmpeg_init_chunked_decoder(h, opened)
    \/ \E h \in Handles, failure \in ChunkFailures : ffmpeg_process_file_chunk(h, failure)

SpecChunks == InitChunks /\ [][NextChunks]_vars

(***************************************************************************)
(* process_chunk failing part-way: SpecPartial drives an MP4 handle over   *)
(* sources long enough for two frames in one FileChunk, so that an         *)
(* allocation can fail after the call has built a chunk.                   *)
(***************************************************************************)
InitPartial ==
    /\ format = SONIX_FORMAT_MP4
    /\ source \in SeqsOf(SourceBytes(format), 2 * ShortUnit, 2 * ShortUnit)
    /\ src_channels \in 1..MaxChannels
    /\ decoder = InitDecoder(Len(source))
    /\ mp4_ctx = InitMp4Context(src_channels)
    /\ memory = "live"
    /\ releases = [r \in Resources |-> 0]
    /\ faulted = FALSE
    /\ fed = 0
    /\ emitted = <<>>
    /\ last = InitReport
    /\ seeks = 0
    /\ loop = NoLoop
    /\ ffmpeg = NoFfmpeg
    /\ whole_file = NoWhole
    /\ box = NoBox

\* A failed call feeds nothing and may be repeated without end, the sample
\* position growing each time; the failures stop once the position has
\* passed the length of the source.
NextPartial ==
    \/ \E n \in ChunkSizes : Mp4ProcessChunk(n)
    \/ \E n \in ChunkSizes, frame_no \in 0..Len(source) :
          mp4_ctx.current_sample <= Len(source) /\ Mp4ProcessChunkOom(n, frame_no)

SpecPartial == InitPartial /\ [][NextPartial]_vars

(***************************************************************************)
(* Seeks on files that are longer than the distance mp4_seek_to_time keeps *)
(* from the end of the file: SpecSeek follows one seek of an MP4 handle on *)
(* a file of one of these sizes, to a time below, at or above the time at  *)
(* which the estimate reaches the end of the file.                         *)
(***************************************************************************)
SeekFileSizes == {SeekBackoff - 24, SeekBackoff, SeekBackoff + 476, 2 * SeekBackoff,
                  4 * SeekBackoff}
FineSeekTimes == {0, 250, 500, 1000, 1200, 1249, 1250, 1251, 1500, 2000, 4000}

InitSeek ==
    /\ format = SONIX_FORMAT_MP4
    /\ source \in {[i \in 1..n |-> "c"] : n \in SeekFileSizes}
    /\ src_channels \in 1..MaxChannels
    /\ decoder = InitDecoder(Len(source))
    /\ mp4_ctx = InitMp4Context(src_channels)
    /\ memory = "live"
    /\ releases = [r \in Resources |-> 0]
    /\ faulted = FALSE
    /\ fed = 0
    /\ emitted = <<>>
    /\ last = InitReport
    /\ seeks = 0
    /\ loop = NoLoop
    /\ ffmpeg = NoFfmpeg
    /\ whole_file = NoWhole
    /\ box = NoBox

NextSeek == \E time_ms \in FineSeekTimes : mp4_seek_to_time(time_ms)

SpecSeek == InitSeek /\ [][NextSeek]_vars

(***************************************************************************)
(* The FFmpeg wrapper (ffmpeg_wrapper.c): one chunked decoder, its         *)
(* sonix_process_file_chunk and its sonix_seek_to_time, which carry the    *)
(* prefix wrapper_ here.  Durations are in units of 1/AV_TIME_BASE seconds *)
(* (AV_TIME_BASE = 1000000), -1 standing for AV_NOPTS_VALUE.               *)
(***************************************************************************)
\* The files a decoder of the wrapper is opened on: what the packets decode
\* to (nb_samples of a frame, 0 for a packet that yields no frame), and the
\* channel count, sample rate and duration FFmpeg states.
WrapperFiles ==
    [packets : SeqsOf({0, 6}, 0, MaxStream), channels : {1, 2}, sample_rate : {100},
     duration : {-1, 500000, 1000000, 2500000}]

WrapperSeekTimes == {0, 1000, 1500}

\* ffmpeg_wrapper.c:554-562: the decoder sonix_init_chunked_decoder returns.
WrapperDecoder(file) ==
    [backend |-> "ffmpeg_wrapper", file |-> file, status |-> "live", next |-> 1,
     total_samples |-> IF file.duration # -1
                       THEN (file.duration * file.sample_rate) \div 1000000 ELSE 0,
     current_sample |-> 0, result |-> [call |-> "none"]]

\* ffmpeg_wrapper.c:606-661: the packet loop of sonix_process_file_chunk; a
\* packet yields one frame at most.
RECURSIVE WrapperLoop(_, _)
WrapperLoop(file, st) ==
    IF ~(st.packets_processed < max_packets_per_chunk /\ st.next <= Len(file.packets))
    THEN st
    ELSE With([out_samples \in {file.packets[st.next]} |->
         WrapperLoop(file, [st EXCEPT !.next = @ + 1,
                                      !.packets_processed = @ + 1,
                                      !.total_samples = @ + out_samples * file.channels,
                                      !.current_sample = @ + out_samples])])

\* sonix_process_file_chunk (ffmpeg_wrapper.c:577-692), no allocation
\* failing.  The packet read ahead at line 662 is put back.
wrapper_process_file_chunk ==
    /\ ffmpeg.backend = "ffmpeg_wrapper"
    /\ ffmpeg.status = "live"
    /\ LET st == WrapperLoop(ffmpeg.file,
                     [next |-> ffmpeg.next, packets_processed |-> 0, total_samples |-> 0,
                      current_sample |-> ffmpeg.current_sample])
           is_last == IF st.packets_processed = 0 \/ st.next > Len(ffmpeg.file.packets)
                      THEN 1 ELSE 0
       IN  ffmpeg' = [ffmpeg EXCEPT
               !.next = st.next,
               !.current_sample = st.current_sample,
               !.result =
                   [call |-> "sonix_process_file_chunk", error_code |-> SONIX_OK,
                    chunk_count |-> IF st.total_samples > 0 THEN 1 ELSE 0,
                    chunks |-> IF st.total_samples > 0
                               THEN <<[sample_count |-> st.total_samples,
                                       start_sample |->
                                           st.current_sample
                                               - st.total_samples \div ffmpeg.file.channels,
                                       is_last |-> is_last]>>
                               ELSE <<>>]]
    /\ UNCHANGED <<format, source, src_channels, decoder, mp4_ctx, memory, releases,
                   faulted, fed, emitted, last, seeks, loop, box, whole_file>>

\* ffmpeg_wrapper.c:715-718: current_sample after a seek, the divisor being
\* the duration in whole seconds times 1000.
WrapperSeekSample(total_samples, time_ms, duration) ==
    (total_samples * time_ms) \div ((duration \div 1000000) * 1000)

\* sonix_seek_to_time (ffmpeg_wrapper.c:695-721).  sought tells whether
\* av_seek_frame succeeds and position the packet it leaves the file at.  A
\* duration below one second makes the divisor 0: the division traps, or
\* yields 0 where the processor does not trap.
wrapper_seek_to_time(time_ms, sought, position, traps) ==
    /\ ffmpeg.backend = "ffmpeg_wrapper"
    /\ ffmpeg.status = "live"
    /\ seeks < MaxSeeks
    /\ seeks' = seeks + 1
    /\ IF ~sought
       THEN ffmpeg' = [ffmpeg EXCEPT
                !.result = [call |-> "sonix_seek_to_time", time_ms |-> time_ms,
                            rc |-> SONIX_ERROR_FFMPEG_DECODE_FAILED]]
       ELSE IF ffmpeg.total_samples > 0 /\ ffmpeg.file.duration \div 1000000 = 0
       THEN IF traps
            THEN ffmpeg' = [ffmpeg EXCEPT !.status = "trapped", !.next = position]
            ELSE ffmpeg' = [ffmpeg EXCEPT
                     !.next = position,
                     !.current_sample = 0,
                     !.result = [call |-> "sonix_seek_to_time", time_ms |-> time_ms,
                                 rc |-> SONIX_OK]]
       ELSE ffmpeg' = [ffmpeg EXCEPT
                !.next = position,
                !.current_sample =
                    IF ffmpeg.total_samples > 0
                    THEN WrapperSeekSample(ffmpeg.total_samples, time_ms,
                                           ffmpeg.file.duration)
                    ELSE @,
                !.result = [call |-> "sonix_seek_to_time", time_ms |-> time_ms,
                            rc |-> SONIX_OK]]
    /\ UNCHANGED <<format, source, src_channels, decoder, mp4_ctx, memory, releases,
                   faulted, fed, emitted, last, loop, box, whole_file>>

\* The decoder after sonix_init_chunked_decoder; no handle of sonix_native.c
\* exists.
InitWrapper ==
    /\ format = SONIX_FORMAT_MP3
    /\ source = <<>>
    /\ src_channels = 1
    /\ decoder = InitDecoder(0)
    /\ mp4_ctx = InitMp4Context(1)
    /\ memory = "freed"
    /\ releases = [r \in Resources |-> 0]
    /\ faulted = FALSE
    /\ fed = 0
    /\ emitted = <<>>
    /\ last = InitReport
    /\ seeks = 0
    /\ loop = NoLoop
    /\ box = NoBox
    /\ whole_file = NoWhole
    /\ ffmpeg \in {WrapperDecoder(file) : file \in WrapperFiles}

NextWrapper ==
    \/ wrapper_process_file_chunk
    \/ \E time_ms \in WrapperSeekTimes, sought, traps \in BOOLEAN,
          position \in 1..(Len(ffmpeg.file.packets) + 1) :
              wrapper_seek_to_time(time_ms, sought, position, traps)

SpecWrapper == InitWrapper /\ [][NextWrapper]_vars

(***************************************************************************)
(* process_chunk driven to the end of the file, on the decoders that read  *)
(* their file through FFmpeg: those of sonix_ffmpeg.c and the one of       *)
(* ffmpeg_wrapper.c.                                                       *)
(***************************************************************************)
InitFinal == InitFfmpeg \/ InitWrapper

NextFinal ==
    \/ \E h \in Handles, opened \in BOOLEAN : ffmpeg_init_chunked_decoder(h, opened)
    \/ \E h \in Handles, failure \in ChunkFailures : ffmpeg_process_file_chunk(h, failure)
    \/ wrapper_process_file_chunk

SpecFinal == InitFinal /\ [][NextFinal]_vars

(***************************************************************************)
(* Threads in sonix_ffmpeg.c.  The file keeps g_ffmpeg_initialized and     *)
(* g_error_message in static variables and takes no lock, so calls of      *)
(* different threads interleave at every access to them.  SpecThreads      *)
(* follows the calls of two threads, one access per step.  A message is    *)
(* named after the thread whose failing call wrote it; "" is the empty     *)
(* message.                                                                *)
(***************************************************************************)
Threads == {"t1", "t2"}
ThreadCalls == {"sonix_init_ffmpeg", "sonix_detect_format", "sonix_decode_audio"}

\* A thread outside every call.
IdleThread == [call |-> "none", pc |-> "idle", audio_data |-> "NULL", result |-> "none"]

\* The entry of a call (sonix_ffmpeg.c:131, 341-349, 442-450): detect and
\* decode set the message and return for a null or empty input, and clear
\* the message otherwise.  last_failure keeps the message of the most recent
\* failing call, network_inits counts the runs of avformat_network_init.
thread_call(t, call, valid) ==
    /\ ffmpeg.backend = "threads"
    /\ ffmpeg.threads[t].pc \in {"idle", "returned"}
    /\ IF call = "sonix_init_ffmpeg"
       THEN ffmpeg' = [ffmpeg EXCEPT
                !.threads[t] = [IdleThread EXCEPT !.call = call, !.pc = "init"]]
       ELSE IF ~valid
       THEN ffmpeg' = [ffmpeg EXCEPT
                !.g_error_message = t,
                !.last_failure = t,
                !.threads[t] = [IdleThread EXCEPT
                                    !.call = call, !.pc = "returned",
                                    !.result = IF call = "sonix_detect_format"
                                               THEN "SONIX_FORMAT_UNKNOWN" ELSE "NULL"]]
       ELSE ffmpeg' = [ffmpeg EXCEPT
                !.g_error_message = "",
                !.threads[t] = [IdleThread EXCEPT !.call = call, !.pc = "init"]]
    /\ UNCHANGED <<format, source, src_channels, decoder, mp4_ctx, memory, releases,
                   faulted, fed, emitted, last, seeks, loop, box, whole_file>>

\* What follows the return of sonix_init_ffmpeg with SONIX_OK in the call
\* of the thread.
AfterInit(thread) ==
    IF thread.call = "sonix_init_ffmpeg"
    THEN [thread EXCEPT !.pc = "returned", !.result = "SONIX_OK"]
    ELSE [thread EXCEPT !.pc = "body"]

\* sonix_ffmpeg.c:133-136: the test of g_ffmpeg_initialized.
thread_init_check(t) ==
    /\ ffmpeg.backend = "threads"
    /\ ffmpeg.threads[t].pc = "init"
    /\ ffmpeg' = [ffmpeg EXCEPT
           !.threads[t] = IF ffmpeg.g_ffmpeg_initialized = 1 THEN AfterInit(@)
                          ELSE [@ EXCEPT !.pc = "network_init"]]
    /\ UNCHANGED <<format, source, src_channels, decoder, mp4_ctx, memory, releases,
                   faulted, fed, emitted, last, seeks, loop, box, whole_file>>

\* sonix_ffmpeg.c:138-152: clear_error_message and avformat_network_init,
\* the libraries being present.
thread_network_init(t) ==
    /\ ffmpeg.backend = "threads"
    /\ ffmpeg.threads[t].pc = "network_init"
    /\ ffmpeg' = [ffmpeg EXCEPT !.g_error_message = "",
                                !.network_inits = @ + 1,
                                !.threads[t].pc = "set_initialized"]
    /\ UNCHANGED <<format, source, src_channels, decoder, mp4_ctx, memory, releases,
                   faulted, fed, emitted, last, seeks, loop, box, whole_file>>

\* sonix_ffmpeg.c:168-169: g_ffmpeg_initialized = 1; return SONIX_OK.
thread_set_initialized(t) ==
    /\ ffmpeg.backend = "threads"
    /\ ffmpeg.threads[t].pc = "set_initialized"
    /\ ffmpeg' = [ffmpeg EXCEPT !.g_ffmpeg_initialized = 1,
                                !.threads[t] = AfterInit(@)]
    /\ UNCHANGED <<format, source, src_channels, decoder, mp4_ctx, memory, releases,
                   faulted, fed, emitted, last, seeks, loop, box, whole_file>>

\* The work of the call between sonix_init_ffmpeg and the cleanup label:
\* sonix_detect_format probes the data and returns (sonix_ffmpeg.c:357-439);
\* sonix_decode_audio decodes into audio_data (456-787).  fails tells whether
\* a step of the work fails, which sets the message.
thread_body(t, fails) ==
    /\ ffmpeg.backend = "threads"
    /\ ffmpeg.threads[t].pc = "body"
    /\ LET thread == ffmpeg.threads[t]
       IN  IF thread.call = "sonix_detect_format"
           THEN ffmpeg' = [ffmpeg EXCEPT
                    !.g_error_message = IF fails THEN t ELSE @,
                    !.last_failure = IF fails THEN t ELSE @,
                    !.threads[t] = [thread EXCEPT
                                        !.pc = "returned",
                                        !.result = IF fails THEN "SONIX_FORMAT_UNKNOWN"
                                                   ELSE "SONIX_FORMAT_MP3"]]
           ELSE ffmpeg' = [ffmpeg EXCEPT
                    !.g_error_message = IF fails THEN t ELSE @,
                    !.last_failure = IF fails THEN t ELSE @,
                    !.threads[t] = [thread EXCEPT
                                        !.pc = "cleanup",
                                        !.audio_data = IF fails THEN "NULL"
                                                       ELSE "SonixAudioData"]]
    /\ UNCHANGED <<format, source, src_channels, decoder, mp4_ctx, memory, releases,
                   faulted, fed, emitted, last, seeks, loop, box, whole_file>>

\* sonix_ffmpeg.c:818-828: what sonix_decode_audio returns.
DecodeResult(audio_data, g_error_message) ==
    IF audio_data = "NULL" \/ g_error_message # "" THEN "NULL" ELSE audio_data

\* The cleanup label of sonix_decode_audio (sonix_ffmpeg.c:789-828).
thread_cleanup(t) ==
    /\ ffmpeg.backend = "threads"
    /\ ffmpeg.threads[t].pc = "cleanup"
    /\ ffmpeg' = [ffmpeg EXCEPT
           !.threads[t] = [@ EXCEPT !.pc = "returned",
                                    !.result = DecodeResult(ffmpeg.threads[t].audio_data,
                                                            ffmpeg.g_error_message)]]
    /\ UNCHANGED <<format, source, src_channels, decoder, mp4_ctx, memory, releases,
                   faulted, fed, emitted, last, seeks, loop, box, whole_file>>

\* The process before its first call into sonix_ffmpeg.c.
InitThreads ==
    /\ format = SONIX_FORMAT_MP3
    /\ source = <<>>
    /\ src_channels = 1
    /\ decoder = InitDecoder(0)
    /\ mp4_ctx = InitMp4Context(1)
    /\ memory = "freed"
    /\ releases = [r \in Resources |-> 0]
    /\ faulted = FALSE
    /\ fed = 0
    /\ emitted = <<>>
    /\ last = InitReport
    /\ seeks = 0
    /\ loop = NoLoop
    /\ box = NoBox
    /\ whole_file = NoWhole
    /\ ffmpeg = [backend |-> "threads", g_ffmpeg_initialized |-> 0, g_error_message |-> "",
                 last_failure |-> "", network_inits |-> 0,
                 threads |-> [t \in Threads |-> IdleThread]]

NextThreads ==
    \/ \E t \in Threads, call \in ThreadCalls, valid \in BOOLEAN : thread_call(t, call, valid)
    \/ \E t \in Threads : thread_init_check(t)
    \/ \E t \in Threads : thread_network_init(t)
    \/ \E t \in Threads : thread_set_initialized(t)
    \/ \E t \in Threads, fails \in BOOLEAN : thread_body(t, fails)
    \/ \E t \in Threads : thread_cleanup(t)

SpecThreads == InitThreads /\ [][NextThreads]_vars

(***************************************************************************)
(* Format detection on a byte buffer: sonix_detect_format of               *)
(* sonix_native.c and of sonix_native_stub.c.  SpecDetect applies one of   *)
(* them to a buffer built of four-byte words, cut at any byte.             *)
(***************************************************************************)
\* The four bytes at offset off spell the ASCII word (a big-endian number).
WordAt(data, off, word) == Slice(data, off, 4) = be32(word)

\* sonix_native.c:56-102.  set_error tells whether the call wrote the
\* message.
sonix_detect_format(data) ==
    With([size \in {Len(data)} |->
    IF size < 4
    THEN [format |-> SONIX_FORMAT_UNKNOWN, set_error |-> TRUE]
    ELSE IF size >= 3 /\ data[1] = 73 /\ data[2] = 68 /\ data[3] = 51
    THEN [format |-> SONIX_FORMAT_MP3, set_error |-> FALSE]
    ELSE With([sync_word \in {IF size >= 2 THEN data[1] * 256 + data[2] ELSE 0} |->
    IF size >= 2 /\ sync_word - (sync_word % 32) = 65504
    THEN [format |-> SONIX_FORMAT_MP3, set_error |-> FALSE]
    ELSE IF size >= 12 /\ WordAt(data, 0, 1380533830) /\ WordAt(data, 8, 1463899717)
    THEN [format |-> SONIX_FORMAT_WAV, set_error |-> FALSE]
    ELSE IF size >= 4 /\ WordAt(data, 0, 1716281667)
    THEN [format |-> SONIX_FORMAT_FLAC, set_error |-> FALSE]
    ELSE IF size >= 4 /\ WordAt(data, 0, 1332176723)
    THEN [format |-> SONIX_FORMAT_OGG, set_error |-> FALSE]
    ELSE [format |-> SONIX_FORMAT_UNKNOWN, set_error |-> TRUE]])])

\* The positions the loop of sonix_native_stub.c:97-101 visits: i = 0, 4,
\* ..., while i < size - 8 and i < 64.
ScannedPositions(size) == {i \in {4 * k : k \in 0..15} : i < size - 8}

\* sonix_native_stub.c:61-106.  The stub writes no message.
stub_detect_format(data) ==
    With([size \in {Len(data)} |->
    IF size < 4
    THEN [format |-> SONIX_FORMAT_UNKNOWN, set_error |-> FALSE]
    ELSE IF size >= 3 /\ data[1] = 73 /\ data[2] = 68 /\ data[3] = 51
    THEN [format |-> SONIX_FORMAT_MP3, set_error |-> FALSE]
    ELSE IF size >= 2 /\ data[1] = 255 /\ data[2] - (data[2] % 32) = 224
    THEN [format |-> SONIX_FORMAT_MP3, set_error |-> FALSE]
    ELSE IF size >= 12 /\ WordAt(data, 0, 1380533830) /\ WordAt(data, 8, 1463899717)
    THEN [format |-> SONIX_FORMAT_WAV, set_error |-> FALSE]
    ELSE IF size >= 4 /\ WordAt(data, 0, 1716281667)
    THEN [format |-> SONIX_FORMAT_FLAC, set_error |-> FALSE]
    ELSE IF size >= 4 /\ WordAt(data, 0, 1332176723)
    THEN [format |-> SONIX_FORMAT_OGG, set_error |-> FALSE]
    ELSE IF size >= 8 /\ (\/ WordAt(data, 4, BOX_TYPE_FTYP)
                          \/ \E i \in ScannedPositions(size) :
                                 WordAt(data, i + 4, BOX_TYPE_FTYP))
    THEN [format |-> SONIX_FORMAT_MP4, set_error |-> FALSE]
    ELSE [format |-> SONIX_FORMAT_UNKNOWN, set_error |-> FALSE]])

\* The words the buffers are built of: "ID3" and a version byte, two frame
\* syncs and a word that only starts like one, "RIFF", "WAVE", "fLaC",
\* "OggS", "ftyp", and zeros.
MaxDetectWords == 3
DetectWords == {<<73, 68, 51, 3>>, <<255, 251, 144, 0>>, <<255, 224, 0, 0>>,
                <<255, 208, 0, 0>>, be32(1380533830), be32(1463899717),
                be32(1716281667), be32(1332176723), be32(BOX_TYPE_FTYP), Zeros(4)}

RECURSIVE Flatten(_)
Flatten(words) == IF words = <<>> THEN <<>> ELSE Head(words) \o Flatten(Tail(words))

\* Buffers of up to MaxDetectWords words with up to three bytes cut off, and
\* buffers with an ftyp word far from the start.
DetectInputs ==
    {Slice(Flatten(words), 0, 4 * Len(words) - cut) :
         words \in SeqsOf(DetectWords, 1, MaxDetectWords), cut \in 0..3}
    \cup {Zeros(pad) \o be32(BOX_TYPE_FTYP) \o Zeros(tail) :
              pad \in {6, 8, 56, 60, 64, 68}, tail \in {0, 4}}

CallDetectFormat ==
    /\ box.call = "none"
    /\ box.family = "detect"
    /\ \E file \in {"sonix_native.c", "sonix_native_stub.c"} :
           box' = [box EXCEPT
               !.call = "sonix_detect_format",
               !.expect = [file |-> file],
               !.result = IF file = "sonix_native.c" THEN sonix_detect_format(box.mem)
                          ELSE stub_detect_format(box.mem)]
    /\ UNCHANGED <<format, source, src_channels, decoder, mp4_ctx, memory, releases,
                   faulted, fed, emitted, last, seeks, loop, whole_file, ffmpeg>>

InitDetect ==
    /\ format = SONIX_FORMAT_MP3
    /\ source = <<>>
    /\ src_channels = 1
    /\ decoder = InitDecoder(0)
    /\ mp4_ctx = InitMp4Context(1)
    /\ memory = "freed"
    /\ releases = [r \in Resources |-> 0]
    /\ faulted = FALSE
    /\ fed = 0
    /\ emitted = <<>>
    /\ last = InitReport
    /\ seeks = 0
    /\ loop = NoLoop
    /\ box \in {BoxInput("detect", data, 0, Len(data), FALSE, 0, [file |-> "none"]) :
                    data \in DetectInputs}
    /\ whole_file = NoWhole
    /\ ffmpeg = NoFfmpeg

NextDetect == CallDetectFormat

SpecDetect == InitDetect /\ [][NextDetect]_vars

(***************************************************************************)
(* Properties.                                                             *)
(***************************************************************************)
\* The AudioChunk covers sample position p.
Covers(chunk, p) ==
    chunk.start_sample <= p /\ p < chunk.start_sample + chunk.sample_count

\* How many of the chunks cover sample position p.
CoverCount(chunks, p) == Cardinality({i \in 1..Len(chunks) : Covers(chunks[i], p)})

\* Sample positions past every stream of the model.
PositionsEnd == (MaxMp3SourceLen + MaxSourceLen) * SamplesPerFrame * MaxChannels

\* The caller has fed the whole source from its start, without a seek, and
\* the call that took the FileChunk flagged is_last has returned.
RunComplete ==
    /\ memory = "live"
    /\ seeks = 0
    /\ fed = Len(source)
    /\ last.op = "process" /\ last.ok /\ last.is_last

\* The entries of the trace of the last process_chunk call.
TraceOfLast == {last.trace[i] : i \in 1..Len(last.trace)}

\* C1: for every MP3 byte stream and every split of it into consecutive
\* FileChunks, the AudioChunks process_chunk emitted cover every sample
\* position of the whole-input decode of the same bytes exactly once and no
\* other position (a unit across a chunk boundary is neither dropped nor
\* duplicated).
C1_ChunkedCoversWholeDecode ==
    (format = SONIX_FORMAT_MP3 /\ RunComplete) =>
        \A p \in 0..PositionsEnd :
            CoverCount(emitted, p) =
                (IF p < decode_mp3(source, src_channels).sample_count THEN 1 ELSE 0)

\* C2: over the AudioChunks emitted by the MP3 and MP4 chunk paths since
\* init or the last seek, every chunk starts where the one before it ends:
\* start_sample = previous start_sample + previous sample_count.
C2_StartSamplesContiguous ==
    format \in {SONIX_FORMAT_MP3, SONIX_FORMAT_MP4} =>
        \A i \in 1..(Len(emitted) - 1) :
            emitted[i + 1].start_sample =
                emitted[i].start_sample + emitted[i].sample_count

\* C3: a process_chunk call in which the unit decoder asked for more bytes
\* (zero consumed) while the unconsumed remainder was larger than the frame
\* buffer does not return success.
C3_OversizedRemainderIsFatal ==
    last.op = "process" =>
        \A e \in TraceOfLast :
            (/\ e.error = ERR_NEED_MORE
             /\ e.bytesconsumed = 0
             /\ Len(last.combined) - e.at > frame_buffer_size) => ~last.ok

\* C4: after a successful seek the carry-over is empty, and the first
\* process_chunk after it hands the unit decoder the bytes of the new chunk
\* and nothing else.
C4_SeekEmptiesCarryOver ==
    /\ (last.op = "seek" /\ last.ok /\ format = SONIX_FORMAT_MP4) =>
           mp4_ctx.frame_buffer_used = 0
    /\ (last.op = "process" /\ last.ok /\ last.after_seek) =>
           last.carry = <<>> /\ last.combined = last.chunk

\* A process_chunk right after a seek that found carry-over on the handle,
\* and decoded a unit from the new chunk.
C4_Witness ==
    /\ format = SONIX_FORMAT_MP4
    /\ last.op = "process" /\ last.ok /\ last.after_seek
    /\ Len(last.pre_seek_carry) > 0
    /\ Len(last.chunks) > 0

\* C5: however often cleanup is called on a handle, the process does not
\* fault and no resource of the handle is released more than once.
C5_CleanupTwiceIsSafe ==
    ~faulted /\ \A r \in Resources : releases[r] <= 1

\* C6: the buffer a process_chunk call hands to the unit decoder is the
\* bytes the previous call saved as carry-over followed by the bytes of the
\* new chunk, and is as long as the two together.
C6_CombinedIsCarryThenChunk ==
    [][(last'.op = "process" /\ last'.ok) =>
           /\ last'.combined = last.saved \o last'.chunk
           /\ Len(last'.combined) = Len(last.saved) + Len(last'.chunk)]_vars

\* A call that found carry-over, was given a non-empty chunk and decoded the
\* unit the two make up.
C6_Witness ==
    /\ format = SONIX_FORMAT_MP4
    /\ last.op = "process" /\ last.ok
    /\ Len(last.carry) > 0 /\ Len(last.chunk) > 0
    /\ Len(last.chunks) > 0

C8_ConsumedErrorIsSkipped ==
    (last.op = "process" /\ format \in {SONIX_FORMAT_MP3, SONIX_FORMAT_MP4}) =>
        \A i \in 1..Len(last.trace) :
            (last.trace[i].error # ERR_NONE /\ last.trace[i].bytesconsumed > 0) =>
                /\ last.ok
                /\ last.trace[i].next = last.trace[i].at + last.trace[i].bytesconsumed
                /\ ~last.trace[i].stopped
                /\ last.trace[i].next < Len(last.combined) =>
                       (i < Len(last.trace) /\ last.trace[i + 1].at = last.trace[i].next)
                /\ Len(last.chunks) =
                       Cardinality({j \in 1..Len(last.trace) : last.trace[j].samples > 0})

\* An MP4 call that skipped a malformed unit and decoded a unit after it.
C8_Witness ==
    /\ format = SONIX_FORMAT_MP4
    /\ last.op = "process" /\ last.ok
    /\ \E i, j \in 1..Len(last.trace) :
          /\ i < j
          /\ last.trace[i].error # ERR_NONE /\ last.trace[i].bytesconsumed > 0
          /\ last.trace[j].samples > 0

\* C9: when the unit decoder reported an error that is not need-more-data
\* and consumed nothing, the cursor moved on by exactly one byte and the
\* loop was not left (so no remainder was stored as carry-over).
C9_ZeroConsumedErrorStepsOneByte ==
    last.op = "process" =>
        \A e \in TraceOfLast :
            (e.error = ERR_INVALID /\ e.bytesconsumed = 0) =>
                (e.next = e.at + 1 /\ ~e.stopped)

\* C10: every iteration of the unit-decode loop leaves the loop or moves the
\* cursor forward by at least one byte, the cursor never moves backwards,
\* and a call that is in its loop gets out of it.
C10_LoopTerminates ==
    /\ [][(loop.pc = "loop" /\ loop'.pc = "loop") =>
             /\ loop'.st.processed_bytes >= loop.st.processed_bytes
             /\ \/ loop'.st.processed_bytes > loop.st.processed_bytes
                \/ loop'.st.stopped]_vars
    /\ (loop.pc = "loop") ~> (loop.pc = "idle")

\* An MP4 loop in its third iteration or later, after an iteration in which
\* the decoder reported no error and consumed nothing.
C10_Witness ==
    /\ format = SONIX_FORMAT_MP4
    /\ loop.pc = "loop"
    /\ loop.st.iters >= 2
    /\ \E i \in 1..Len(loop.st.trace) :
          loop.st.trace[i].error = ERR_NONE /\ loop.st.trace[i].bytesconsumed = 0

\* C11: the carry-over of an MP4 context never holds more bytes than the
\* frame buffer has room for, after any sequence of chunks, decoder
\* outcomes and seeks.
C11_CarryOverWithinCapacity ==
    format = SONIX_FORMAT_MP4 =>
        /\ mp4_ctx.frame_buffer_used <= frame_buffer_size
        /\ mp4_ctx.frame_buffer_used <= Len(mp4_ctx.frame_buffer)

\* A call has just stored a remainder as carry-over.
C11_Witness ==
    /\ format = SONIX_FORMAT_MP4
    /\ last.op = "process" /\ last.ok
    /\ mp4_ctx.frame_buffer_used > 0
    /\ last.saved # <<>>

\* C12: once process_chunk or seek has failed with a fatal error (here: out
\* of memory), the next process_chunk or seek on the handle fails too.
C12_FatalErrorIsTerminal ==
    [][(/\ last.op \in {"process", "seek"}
        /\ ~last.ok
        /\ last.error_code = SONIX_ERROR_OUT_OF_MEMORY
        /\ last'.op \in {"process", "seek"}) => ~last'.ok]_vars

\* The value of a big-endian field: its bytes, most significant first.
RECURSIVE BigEndian(_)
BigEndian(bytes) ==
    IF bytes = <<>> THEN 0
    ELSE BigEndian(SubSeq(bytes, 1, Len(bytes) - 1)) * 256 + bytes[Len(bytes)]

\* The 32-bit field and the 64-bit field at an offset of the input buffer.
Field32(off) == BigEndian(Slice(box.mem, box.data + off, 4))
Field64(off) == [hi |-> Field32(off), lo |-> Field32(off + 4)]

\* C16: whenever mp4_parse_box_header succeeds, the header has header_size 8
\* and the size of the 32-bit size field, or (only when that field is 1)
\* header_size 16 and the size of the 64-bit field at offset 8; its type is
\* the FourCC at offset 4; and header_size <= size <= available bytes.
C16_ParsedHeaderIsWellFormed ==
    (box.call = "mp4_parse_box_header" /\ box.result.rc = SONIX_OK) =>
        LET header == box.result.header
        IN  /\ \/ header.header_size = 8 /\ header.size = U64(Field32(0))
               \/ Field32(0) = 1 /\ header.header_size = 16 /\ header.size = Field64(8)
            /\ header.type = Field32(4)
            /\ ~Below(header.size, header.header_size)
            /\ ~Above(header.size, box.data_size)

C16_Witness ==
    /\ box.call = "mp4_parse_box_header"
    /\ box.result.rc = SONIX_OK
    /\ box.result.header.header_size = 16
    /\ box.result.header.size.lo > 16

\* C17: mp4_parse_box_header fails with InvalidData when an argument is
\* null, when fewer than 8 bytes are available, or when the size field is 1
\* and fewer than 16 bytes are available; on any other input it fails with
\* ContainerInvalid when the size field is 0 or the declared size is below
\* the header size or above the available bytes.
C17_HeaderErrors ==
    box.call = "mp4_parse_box_header" =>
        IF box.data = NULL \/ ~box.header \/ box.data_size < 8
        THEN box.result.rc = SONIX_ERROR_INVALID_DATA
        ELSE IF Field32(0) = 1 /\ box.data_size < 16
        THEN box.result.rc = SONIX_ERROR_INVALID_DATA
        ELSE LET declared == IF Field32(0) = 1 THEN Field64(8) ELSE U64(Field32(0))
                 header_size == IF Field32(0) = 1 THEN 16 ELSE 8
             IN  (\/ Field32(0) = 0
                  \/ Below(declared, header_size)
                  \/ Above(declared, box.data_size))
                     => box.result.rc = SONIX_ERROR_MP4_CONTAINER_INVALID

C17_Witness ==
    /\ box.call = "mp4_parse_box_header"
    /\ box.data # NULL /\ box.header /\ box.data_size >= 8
    /\ Field32(0) = 0
    /\ box.result.rc = SONIX_ERROR_MP4_CONTAINER_INVALID

\* C18: the header codec is a bijection on well-formed headers: encoding
\* the size, type and header_size that mp4_parse_box_header returned gives
\* back the header bytes it parsed, and parsing the encoding of a valid
\* (size, type, header_size) returns that triple.
C18_HeaderCodecRoundTrip ==
    box.call = "mp4_parse_box_header" =>
        /\ box.result.rc = SONIX_OK =>
               EncodeHeader(box.result.header)
                   = Slice(box.mem, box.data, box.result.header.header_size)
        /\ box.family = "encoded" =>
               box.result.rc = SONIX_OK /\ box.result.header = box.expect

C18_Witness ==
    /\ box.call = "mp4_parse_box_header"
    /\ box.family = "encoded"
    /\ box.expect.header_size = 16
    /\ box.result.rc = SONIX_OK
    /\ EncodeHeader(box.result.header) = Slice(box.mem, 0, 16)

\* The offset of box i of a layout: the sizes of the boxes before it.
RECURSIVE OffsetOf(_, _)
OffsetOf(layout, i) == IF i = 1 THEN 0 ELSE OffsetOf(layout, i - 1) + layout[i - 1].size

\* C15: over a buffer of contiguous well-formed sibling boxes, mp4_find_box
\* returns the offset and the declared size of the first box of the type
\* looked for, and not-found when no box of the sequence has that type.
C15_FindBoxFirstMatch ==
    (box.call = "mp4_find_box" /\ box.family = "siblings") =>
        LET layout == box.expect
            matches == {i \in 1..Len(layout) : layout[i].type = box.box_type}
        IN  IF matches = {}
            THEN box.result.box = NULL
            ELSE LET first == CHOOSE i \in matches : \A j \in matches : i <= j
                 IN  /\ box.result.box = OffsetOf(layout, first)
                     /\ box.result.box_size = layout[first].size

C15_Witness ==
    /\ box.call = "mp4_find_box"
    /\ box.family = "siblings"
    /\ Cardinality({i \in 1..Len(box.expect) : box.expect[i].type = box.box_type}) = 2
    /\ box.expect[1].type # box.box_type
    /\ box.result.box = box.expect[1].size
    /\ box.result.box_size = box.expect[2].size

\* The verdict C19 gives a box by its type and its major brand.
FtypVerdict(type, brand) ==
    IF type # BOX_TYPE_FTYP THEN SONIX_ERROR_MP4_CONTAINER_INVALID
    ELSE IF brand \in {BigEndian(<<105, 115, 111, 109>>), BigEndian(<<109, 112, 52, 49>>),
                       BigEndian(<<109, 112, 52, 50>>), BigEndian(<<77, 52, 65, 32>>),
                       BigEndian(<<77, 52, 66, 32>>)}
    THEN SONIX_OK
    ELSE SONIX_ERROR_MP4_UNSUPPORTED_CODEC

\* The call was given a whole box that holds the four bytes of a brand.
FtypCallOnBoxWithBrand ==
    /\ box.call = "mp4_validate_ftyp_box"
    /\ box.expect.whole
    /\ box.expect.payload_len >= 4

\* C19 as stated: for a box with a major brand, mp4_validate_ftyp_box
\* returns OK exactly when the type is ftyp and the brand is one of isom,
\* mp41, mp42, 'M4A ', 'M4B '; UnsupportedCodec for ftyp with another brand;
\* ContainerInvalid for another type.
C19_FtypVerdictByTypeAndBrand ==
    FtypCallOnBoxWithBrand =>
        box.result = FtypVerdict(box.expect.type, box.expect.brand)

\* C19 amended: the same for a box of at least 16 bytes; given fewer than
\* 16 bytes, mp4_validate_ftyp_box returns InvalidData whatever the type
\* and the brand.
C19_FtypVerdictFromSixteenBytes ==
    /\ (FtypCallOnBoxWithBrand /\ box.data_size >= 16) =>
           box.result = FtypVerdict(box.expect.type, box.expect.brand)
    /\ (box.call = "mp4_validate_ftyp_box" /\ box.data_size < 16) =>
           box.result = SONIX_ERROR_INVALID_DATA

C19_Witness ==
    /\ FtypCallOnBoxWithBrand
    /\ box.data_size >= 16
    /\ box.expect.header_size = 16
    /\ box.expect.type = BOX_TYPE_FTYP
    /\ box.expect.brand = BigEndian(<<77, 52, 65, 32>>)
    /\ box.result = SONIX_OK

\* The payload bytes of the mdhd input, and the fields C20 places in them.
MdhdPayloadField32(off) == Field32(box.expect.header_size + off)
MdhdPayloadField64(off) == Field64(box.expect.header_size + off)
MdhdFieldsAtOffsets ==
    IF box.expect.version = 0
    THEN [creation_time |-> U64(MdhdPayloadField32(4)),
          modification_time |-> U64(MdhdPayloadField32(8)),
          timescale |-> MdhdPayloadField32(12),
          duration |-> U64(MdhdPayloadField32(16))]
    ELSE [creation_time |-> MdhdPayloadField64(4),
          modification_time |-> MdhdPayloadField64(12),
          timescale |-> MdhdPayloadField32(20),
          duration |-> MdhdPayloadField64(24)]

\* The field values the writer of the input put into the box: those of the
\* input, cut to 32 bits in a version-0 box.
MdhdFieldsWritten ==
    IF box.expect.version = 1 THEN box.expect.fields
    ELSE [box.expect.fields EXCEPT !.creation_time.hi = 0, !.modification_time.hi = 0,
                                   !.duration.hi = 0]

\* The box is too short for the fields of its version (0 or 1), or for a
\* version byte.
MdhdTooShort ==
    \/ box.expect.payload_len = 0
    \/ box.expect.version = 0 /\ box.expect.payload_len < 20
    \/ box.expect.version = 1 /\ box.expect.payload_len < 32

\* What C20 says of a call of mp4_parse_mdhd_box on a box, the clause on
\* boxes too short being read first where two clauses apply; the other
\* type or version yields ContainerInvalid under the condition given.
MdhdResultAsClaimed(invalid_when) ==
    IF MdhdTooShort
    THEN box.result.rc # SONIX_OK
    ELSE IF box.expect.type = BOX_TYPE_MDHD /\ box.expect.version \in {0, 1}
    THEN /\ box.result.rc = SONIX_OK
         /\ box.result.mdhd = MdhdFieldsAtOffsets
         /\ box.result.mdhd = MdhdFieldsWritten
    ELSE invalid_when => box.result.rc = SONIX_ERROR_MP4_CONTAINER_INVALID

\* C20 as stated: version-0 and version-1 fields at the offsets of the
\* claim; a box of another type or another version yields ContainerInvalid;
\* a box too short for its version's fields yields an error.
C20_MediaHeaderFields ==
    box.call = "mp4_parse_mdhd_box" => MdhdResultAsClaimed(TRUE)

\* C20 amended: the same, a box of another type or another version yielding
\* ContainerInvalid when the box has at least 24 bytes and InvalidData when
\* it has fewer.
C20_MediaHeaderFieldsFrom24Bytes ==
    box.call = "mp4_parse_mdhd_box" =>
        /\ MdhdResultAsClaimed(box.data_size >= 24)
        /\ box.data_size < 24 => box.result.rc = SONIX_ERROR_INVALID_DATA

C20_Witness ==
    /\ box.call = "mp4_parse_mdhd_box"
    /\ box.expect.version = 1
    /\ box.expect.type = BOX_TYPE_MDHD
    /\ box.result.rc = SONIX_OK
    /\ box.result.mdhd.duration = [hi |-> 7, lo |-> 8]
    /\ box.result.mdhd.timescale = 48000

\* A trak of an input that C13 counts as an audio track: its handler type
\* is audio, and its mdhd, stsd and stbl boxes are there and parse.
UsableTrak(k) ==
    /\ k.handler = HANDLER_TYPE_SOUN
    /\ k.mdhd = "ok"
    /\ k.stsd \in {"ok", "other"}
    /\ k.stbl

UsableTraks(traks) == {i \in 1..Len(traks) : UsableTrak(traks[i])}

\* The offset in a moov box of its trak i.
RECURSIVE TrakOffset(_, _)
TrakOffset(traks, i) ==
    IF i = 1 THEN 8 ELSE TrakOffset(traks, i - 1) + Len(TrakBox(traks[i - 1]))

\* C13: mp4_find_audio_track returns as valid the first trak whose handler
\* type is audio and whose mdhd, stsd and sample table parse; a trak that is
\* not audio, or whose mdhd, stsd or stbl box is missing or fails to parse,
\* is skipped; NoAudioTrack is returned when every trak has been skipped.
C13_FirstUsableTrakIsReturned ==
    box.call = "mp4_find_audio_track" =>
        LET usable == UsableTraks(box.expect.traks)
        IN  IF usable = {}
            THEN box.result.rc = SONIX_ERROR_MP4_NO_AUDIO_TRACK
            ELSE /\ box.result.rc = SONIX_OK
                 /\ box.result.audio_track.is_valid = 1
                 /\ box.result.trak =
                        TrakOffset(box.expect.traks,
                                   CHOOSE i \in usable : \A j \in usable : i <= j)

\* C14: for an input of at least 32 bytes, mp4_validate_container yields
\* ContainerInvalid for a missing or malformed ftyp box; otherwise
\* ContainerInvalid for a missing moov box; otherwise NoAudioTrack when no
\* trak is a usable audio track; otherwise UnsupportedCodec for an
\* unsupported codec on the track found; and OK otherwise.
C14_ContainerErrorPrecedence ==
    (box.call = "mp4_validate_container" /\ box.data_size >= 32) =>
        LET e == box.expect
            usable == UsableTraks(e.traks)
            found == e.traks[CHOOSE i \in usable : \A j \in usable : i <= j]
            no_ftyp == e.ftyp \in {"missing", "short"}
            no_moov == ~no_ftyp /\ ~e.moov
            no_track == ~no_ftyp /\ e.moov /\ usable = {}
            no_codec == ~no_ftyp /\ e.moov /\ usable # {} /\ found.stsd # "ok"
        IN  /\ no_ftyp => box.result = SONIX_ERROR_MP4_CONTAINER_INVALID
            /\ no_moov => box.result = SONIX_ERROR_MP4_CONTAINER_INVALID
            /\ no_track => box.result = SONIX_ERROR_MP4_NO_AUDIO_TRACK
            /\ no_codec => box.result = SONIX_ERROR_MP4_UNSUPPORTED_CODEC
            /\ box.result = SONIX_OK => ~(no_ftyp \/ no_moov \/ no_track \/ no_codec)

C22_WritesWithinCapacity ==
    /\ whole_file.fn = "decode_mp3" =>
          /\ whole_file.write.at + whole_file.write.n <= whole_file.write.capacity
          /\ whole_file.result # "NULL" => whole_file.total_samples <= whole_file.samples_capacity
    /\ whole_file.fn = "sonix_decode_audio" =>
          /\ whole_file.write.at + whole_file.write.n <= whole_file.write.capacity
          /\ whole_file.result # "NULL" => whole_file.sample_index <= whole_file.max_samples

\* C22: a frame that did not fit the buffer as allocated was written after a
\* growth, in the main loop of sonix_decode_audio.
C22_Witness ==
    /\ whole_file.fn = "sonix_decode_audio"
    /\ whole_file.grown >= 1
    /\ whole_file.write.n > 0
    /\ whole_file.write.at + whole_file.write.n
           > estimated_samples(100, whole_file.sample_rate, whole_file.channels)

C30_BackendOutlivesHandles ==
    ffmpeg.backend = "sonix_ffmpeg" =>
        ((\E h \in Handles : ffmpeg.decoders[h].status = "live")
             => ffmpeg.g_ffmpeg_initialized = 1)

C26_SeekStaysInsideSource ==
    (last.op = "seek" /\ last.ok) =>
        /\ format = SONIX_FORMAT_MP4 =>
               (0 <= mp4_ctx.file_offset /\ mp4_ctx.file_offset <= Len(source))
        /\ format \in {SONIX_FORMAT_MP3, SONIX_FORMAT_FLAC} =>
               (0 <= decoder.file_offset /\ decoder.file_offset <= decoder.file_size)

\* C27: the position a successful seek moves the source to is not below the
\* position of a successful seek to any earlier time on the same source.
C27_SeekIsMonotonic ==
    (last.op = "seek" /\ last.ok /\ format = SONIX_FORMAT_MP4) =>
        \A t1, t2 \in FineSeekTimes :
            (/\ t1 <= t2
             /\ mp4_ctx.current_sample
                    = Mp4TargetSample(t2, mp4_ctx.sample_rate, mp4_ctx.channels)
             /\ Mp4EstimatePosition(Len(source), t1) >= 0)
                => Mp4EstimatePosition(Len(source), t1) <= mp4_ctx.file_offset

\* C28: after a successful seek of the FFmpeg wrapper to time_ms, the
\* decoder's sample position, which counts what the start_sample of its
\* chunks counts, is time_ms * sample_rate / 1000.
C28_SeekSetsSamplePosition ==
    (/\ ffmpeg.backend = "ffmpeg_wrapper"
     /\ ffmpeg.status = "live"
     /\ ffmpeg.result.call = "sonix_seek_to_time"
     /\ ffmpeg.result.rc = SONIX_OK)
        => ffmpeg.current_sample
               = (ffmpeg.result.time_ms * ffmpeg.file.sample_rate) \div 1000

\* C29: a process_chunk that returns a result after a result of the same
\* decoder was flagged final returns a result that is flagged final and holds
\* no samples; for the decoders of sonix_ffmpeg.c, whose result carries the
\* flag, and for the decoder of ffmpeg_wrapper.c, whose chunk carries it.
C29_FinalStaysFinal ==
    [][/\ (ffmpeg.backend = "sonix_ffmpeg" /\ ffmpeg'.backend = "sonix_ffmpeg") =>
              (\A h \in Handles :
                  (/\ ffmpeg.decoders[h].status = "live"
                   /\ ffmpeg.decoders[h].result.returned = "result"
                   /\ ffmpeg.decoders[h].result.success = 1
                   /\ ffmpeg.decoders[h].result.is_final_chunk = 1
                   /\ ffmpeg'.decoders[h] # ffmpeg.decoders[h]
                   /\ ffmpeg'.decoders[h].result.returned = "result"
                   /\ ffmpeg'.decoders[h].result.success = 1)
                      => /\ ffmpeg'.decoders[h].result.is_final_chunk = 1
                         /\ ffmpeg'.decoders[h].result.sample_count = 0)
       /\ (ffmpeg.backend = "ffmpeg_wrapper" /\ ffmpeg'.backend = "ffmpeg_wrapper") =>
              ((/\ ffmpeg.result.call = "sonix_process_file_chunk"
               /\ ffmpeg.result.chunk_count = 1
               /\ ffmpeg.result.chunks[1].is_last = 1
               /\ ffmpeg' # ffmpeg
               /\ ffmpeg'.result.call = "sonix_process_file_chunk")
                  => /\ ffmpeg'.result.chunk_count = 1
                     /\ ffmpeg'.result.chunks[1].is_last = 1
                     /\ ffmpeg'.result.chunks[1].sample_count = 0)]_vars

\* C31: avformat_network_init runs at most once, however the calls that
\* reach sonix_init_ffmpeg interleave, and every call of sonix_init_ffmpeg
\* returns SONIX_OK.
C31_InitRunsOnce ==
    ffmpeg.backend = "threads" =>
        /\ ffmpeg.network_inits <= 1
        /\ \A t \in Threads :
               (ffmpeg.threads[t].call = "sonix_init_ffmpeg"
                    /\ ffmpeg.threads[t].pc = "returned")
                   => ffmpeg.threads[t].result = "SONIX_OK"

\* C32: a sonix_decode_audio call whose own decoding produced audio data
\* returns that data, whatever the calls of the other threads do.
C32_DecodeOutcomeIsOwn ==
    ffmpeg.backend = "threads" =>
        \A t \in Threads :
            (ffmpeg.threads[t].call = "sonix_decode_audio"
                 /\ ffmpeg.threads[t].pc = "returned"
                 /\ ffmpeg.threads[t].audio_data # "NULL")
                => ffmpeg.threads[t].result = ffmpeg.threads[t].audio_data

\* C33: between calls, the message sonix_get_error_message returns is the one
\* the most recent failing call wrote, however many successful calls followed
\* it.
C33_MessageOutlivesSuccess ==
    (ffmpeg.backend = "threads"
         /\ \A t \in Threads : ffmpeg.threads[t].pc \in {"idle", "returned"})
        => ffmpeg.g_error_message = ffmpeg.last_failure

\* C35: no step of a sonix_detect_format call changes g_error_message or
\* g_ffmpeg_initialized.
C35_DetectChangesNothing ==
    [][\A t \in Threads :
           (ffmpeg.backend = "threads" /\ ffmpeg'.backend = "threads"
                /\ ffmpeg'.threads[t] # ffmpeg.threads[t]
                /\ ffmpeg'.threads[t].call = "sonix_detect_format")
               => /\ ffmpeg'.g_error_message = ffmpeg.g_error_message
                  /\ ffmpeg'.g_ffmpeg_initialized = ffmpeg.g_ffmpeg_initialized]_vars

\* The tag the signatures of a buffer call for: the first that matches, in
\* the order ID3 tag, frame sync, RIFF/WAVE, fLaC, OggS, ftyp at offset 4 or
\* at a scanned position; Unknown for fewer than 4 bytes or no match.
FirstSignature(data) ==
    IF Len(data) < 4 THEN SONIX_FORMAT_UNKNOWN
    ELSE IF Slice(data, 0, 3) = <<73, 68, 51>> THEN SONIX_FORMAT_MP3
    ELSE IF data[1] = 255 /\ data[2] >= 224 THEN SONIX_FORMAT_MP3
    ELSE IF Len(data) >= 12 /\ WordAt(data, 0, 1380533830) /\ WordAt(data, 8, 1463899717)
    THEN SONIX_FORMAT_WAV
    ELSE IF WordAt(data, 0, 1716281667) THEN SONIX_FORMAT_FLAC
    ELSE IF WordAt(data, 0, 1332176723) THEN SONIX_FORMAT_OGG
    ELSE IF Len(data) >= 8
            /\ \E i \in {0} \cup ScannedPositions(Len(data)) :
                   WordAt(data, i + 4, BOX_TYPE_FTYP)
    THEN SONIX_FORMAT_MP4
    ELSE SONIX_FORMAT_UNKNOWN

\* C34: sonix_detect_format returns the tag of the first signature that
\* matches, and Unknown for a buffer of fewer than 4 bytes or without a
\* match.
C34_DetectFirstSignature ==
    (box.call = "sonix_detect_format" /\ box.family = "detect")
        => box.result.format = FirstSignature(box.mem)

\* C36: mp4_validate_ftyp_box reads no byte at or beyond the size it was
\* given.
C36_ReadsStayInside ==
    (box.call = "mp4_validate_ftyp_box" /\ box.family = "ftyp")
        => FtypReadEnd(box.mem \o Zeros(MaxOverRead), box.data, box.data_size)
               <= box.data_size

\* The samples the first n packets of a file decode to, over all channels.
RECURSIVE DecodedSamples(_, _)
DecodedSamples(file, n) ==
    IF n = 0 THEN 0
    ELSE DecodedSamples(file, n - 1)
             + (IF file.packets[n] > 0 THEN file.packets[n] * file.channels ELSE 0)

\* C37: on a file whose packets all decode, the samples a decoder of
\* sonix_ffmpeg.c has written to its chunk results are the samples of every
\* frame decoded from the packets it has read.
C37_EveryFrameIsDelivered ==
    ffmpeg.backend = "sonix_ffmpeg" =>
        \A h \in Handles :
            (ffmpeg.decoders[h].status = "live"
                 /\ \A i \in 1..Len(ffmpeg.file.packets) : ffmpeg.file.packets[i] >= 0)
                => ffmpeg.decoders[h].current_sample
                       = DecodedSamples(ffmpeg.file, ffmpeg.decoders[h].next - 1)

\* C38: a process_chunk call that fails leaves the sample position and the
\* carry-over of the handle as they were before the call.
C38_FailedChunkChangesNothing ==
    [][(last'.op = "process" /\ ~last'.ok)
           => /\ mp4_ctx'.current_sample = mp4_ctx.current_sample
              /\ mp4_ctx'.frame_buffer_used = mp4_ctx.frame_buffer_used
              /\ mp4_ctx'.frame_buffer = mp4_ctx.frame_buffer]_vars

\* C39: a seek that returns an error leaves the handle as it was: the read
\* position in the source, the carry-over and the sample position.
C39_FailedSeekChangesNothing ==
    [][(last'.op = "seek" /\ ~last'.ok /\ last' # last)
           => (mp4_ctx' = mp4_ctx /\ decoder' = decoder)]_vars

\* C40: no sonix_seek_to_time of ffmpeg_wrapper.c comes to the division
\* that sets current_sample (av_seek_frame having succeeded, total_samples
\* above 0) with a divisor of 0.
C40_NoDivisionByZero ==
    [][~(/\ ffmpeg.backend = "ffmpeg_wrapper"
         /\ seeks' = seeks + 1
         /\ ffmpeg.total_samples > 0
         /\ (ffmpeg.file.duration \div 1000000) * 1000 = 0
         /\ (ffmpeg'.status = "trapped" \/ ffmpeg'.result.rc = SONIX_OK))]_vars

====
